---- MODULE Spec2Model ----
(***************************************************************************)
(* Model of the integration assistant: IntegrationProblem (technique       *)
(* detection and answer lookup), AnswerValidator (normalisation and        *)
(* comparison) and IntegrationController with its views: attempts, hints,  *)
(* solution steps, technique changes and resets.                           *)
(*                                                                         *)
(* A JavaScript string is a sequence of one-character strings, so that     *)
(* the regular expressions and replacements of the code are computed       *)
(* character by character.  Tags and messages that the code never          *)
(* inspects are plain strings.                                             *)
(***************************************************************************)
EXTENDS Integers, Sequences, FiniteSets, TLC

VARIABLES
    functionInput,      \* value of the #functionInput field
    answerInput,        \* value of the #answerInput field
    problem,            \* the IntegrationProblem instance
    currentStep,        \* IntegrationController.currentStep
    userAttempts,       \* IntegrationController.userAttempts
    revealedHints,      \* HintsView.revealedHints
    checkBtnEnabled,    \* !checkAnswerBtn.disabled
    answerSectionShown, \* #answerSection is displayed
    progress,           \* percentage last given to updateProgress
    lastResult,         \* verdict last given to answerView.showValidation
    revealed,           \* the validation area displays the correct answer
    message,            \* text last given to interfaceView.showValidationMessage
    currentHints,       \* HintsView.currentHints
    hintItems,          \* the children of #hintsAccordion, in order
    stepsShown,         \* the children of the #steps container, in order
    hintBtnEnabled,     \* !hintBtn.disabled
    stepBtnEnabled,     \* !stepBtn.disabled
    progressThirds,     \* thirds of a percent that the percentage holds beyond progress
    isInitialized,      \* IntegrationController.isInitialized
    listenerSets,       \* runs of setupEventListeners, each registering every listener
    moduleStatus,       \* module loader: "idle", "loading", "loaded" or "failed" per module
    loaderPc,           \* module loader: "ready", the group awaited, "done" or "failed"
    errorBanner,        \* module loader: the 'Loading Error' banner is in the page
    windowGlobals,      \* names defined on window
    waitAttempts,       \* attempts of IntegrationAssistant.waitForDependencies
    appPc,              \* position of IntegrationAssistant.initialize
    appInitialized,     \* IntegrationAssistant.isInitialized
    errorMessage,       \* text given to IntegrationAssistant.showErrorMessage
    arg,                \* input of the function under study (function specifications)
    ret,                \* its result
    pc                  \* "call" before the function ran, "done" after

vars == <<functionInput, answerInput, problem, currentStep, userAttempts,
          revealedHints, checkBtnEnabled, answerSectionShown, progress,
          lastResult, revealed, message, currentHints, hintItems, stepsShown,
          hintBtnEnabled, stepBtnEnabled, progressThirds, isInitialized,
          listenerSets, moduleStatus, loaderPc, errorBanner, windowGlobals,
          waitAttempts, appPc, appInitialized, errorMessage, arg, ret, pc>>

ctlVars == <<functionInput, answerInput, problem, currentStep, userAttempts,
             revealedHints, checkBtnEnabled, answerSectionShown, progress,
             lastResult, revealed, message, currentHints, hintItems, stepsShown,
             hintBtnEnabled, stepBtnEnabled, progressThirds, isInitialized,
             listenerSets>>

\* what the hint list, the step list and their two buttons hold
guideVars == <<currentHints, hintItems, stepsShown, hintBtnEnabled, stepBtnEnabled>>

funVars == <<arg, ret, pc>>

\* what IntegrationController.initialize alone changes
initVars == <<isInitialized, listenerSets>>

\* the module loader, IntegrationAssistant.initialize, and both
loaderVars == <<moduleStatus, loaderPc, errorBanner>>
assistantVars == <<windowGlobals, waitAttempts, appPc, appInitialized, errorMessage>>
bootVars == <<loaderVars, assistantVars>>

----------------------------------------------------------------------------
(* Bounds *)

\* longest input, counted in fragments, of the classifier specification
MaxFragments == 3
\* longest answer, counted in fragments, of the normalisation specification
MaxAnswerFragments == 3
\* longest user answer, counted in fragments, of the validation specification
MaxUserFragments == 2
\* longest short correct answer, counted in fragments, of the validation specification
MaxCorrectFragments == 1
\* validations of one problem after which the model stops submitting
MaxSubmits == 5
\* the same in the session specification
MaxSessionSubmits == 3
\* successful calls of controller.initialize on one controller
MaxInitializeCalls == 2
\* fragments in an input of MathUtils.validateInput
MaxInputFragments == 4
\* fragments in a user answer given to the equivalence rewrites
MaxEquivalentFragments == 3

----------------------------------------------------------------------------
(* Strings *)

Whitespace == {" ", "\t"}
Digits == {"0", "1", "2", "3", "4", "5", "6", "7", "8", "9"}
UpperAlpha == <<"A","B","C","D","E","F","G","H","I","J","K","L","M",
                "N","O","P","Q","R","S","T","U","V","W","X","Y","Z">>
LowerAlpha == <<"a","b","c","d","e","f","g","h","i","j","k","l","m",
                "n","o","p","q","r","s","t","u","v","w","x","y","z">>

\* String.prototype.toLowerCase, one character
LowerChar(c) ==
    IF \E i \in 1..26 : UpperAlpha[i] = c
    THEN LowerAlpha[CHOOSE i \in 1..26 : UpperAlpha[i] = c]
    ELSE c

toLowerCase(s) == [i \in 1..Len(s) |-> LowerChar(s[i])]

\* s.replace(/\s/g, '') and s.replace(/\s+/g, '')
StripWhitespace(s) == SelectSeq(s, LAMBDA c : c \notin Whitespace)

\* IsBlank without the trim: only the empty string is blank
IsBlank_EmptyOnly(s) == s = <<>>

\* s.trim() === ''
IsBlank(s) == \A i \in 1..Len(s) : s[i] \in Whitespace

\* p occurs in s at position i
OccursAt(s, p, i) ==
    /\ i >= 1
    /\ i + Len(p) - 1 <= Len(s)
    /\ SubSeq(s, i, i + Len(p) - 1) = p

\* s.includes(p)
includes(s, p) == \E i \in 1..(Len(s) + 1) : OccursAt(s, p, i)

\* s ends with p
EndsWith(s, p) == OccursAt(s, p, Len(s) - Len(p) + 1)

\* s.replace(/p$/, '') for a literal p
StripSuffix(s, p) == IF EndsWith(s, p) THEN SubSeq(s, 1, Len(s) - Len(p)) ELSE s

\* s.replace(/p/, r) for a literal p: the leftmost occurrence only
ReplaceFirst(s, p, r) ==
    IF includes(s, p)
    THEN LET i == CHOOSE k \in 1..(Len(s) + 1) :
                      /\ OccursAt(s, p, k)
                      /\ \A j \in 1..(k - 1) : ~OccursAt(s, p, j)
         IN SubSeq(s, 1, i - 1) \o r \o SubSeq(s, i + Len(p), Len(s))
    ELSE s

\* s.replace(/p/g, '') for a literal non-empty p: left to right, no rescan
RECURSIVE RemoveAllFrom(_, _, _)
RemoveAllFrom(s, p, i) ==
    IF i > Len(s) THEN <<>>
    ELSE IF OccursAt(s, p, i) THEN RemoveAllFrom(s, p, i + Len(p))
    ELSE <<s[i]>> \o RemoveAllFrom(s, p, i + 1)

RemoveAll(s, p) == RemoveAllFrom(s, p, 1)

\* concatenation of a sequence of strings
RECURSIVE Concat(_)
Concat(ss) == IF ss = <<>> THEN <<>> ELSE Head(ss) \o Concat(Tail(ss))

\* all sequences over S of length at most n
SeqsUpTo(S, n) == UNION {[1..k -> S] : k \in 0..n}

----------------------------------------------------------------------------
(* IntegrationProblem *)

\* end of the longest match of \d* in s from position i
RECURSIVE SkipDigits(_, _)
SkipDigits(s, i) ==
    IF i <= Len(s) /\ s[i] \in Digits THEN SkipDigits(s, i + 1) ELSE i

\* end of the match of the optional character c in s at position i
SkipOptional(s, i, c) == IF i <= Len(s) /\ s[i] = c THEN i + 1 ELSE i

\* end of the match of \d*x?\^?\d* in s from position i
TermEnd(s, i) ==
    SkipDigits(s, SkipOptional(s, SkipOptional(s, SkipDigits(s, i), "x"), "^"))

\* /^x\^?\d*$/
MatchesPowerOfX(s) ==
    /\ Len(s) >= 1
    /\ s[1] = "x"
    /\ SkipDigits(s, SkipOptional(s, 2, "^")) = Len(s) + 1

\* /^\d*x\^?\d*$/
MatchesMonomial(s) ==
    LET i == SkipDigits(s, 1)
    IN /\ i <= Len(s)
       /\ s[i] = "x"
       /\ SkipDigits(s, SkipOptional(s, i + 1, "^")) = Len(s) + 1

\* ([+-]\d*x?\^?\d*)*$ from position i
RECURSIVE SignedTermsFrom(_, _)
SignedTermsFrom(s, i) ==
    IF i > Len(s) THEN TRUE
    ELSE IF s[i] \in {"+", "-"} THEN SignedTermsFrom(s, TermEnd(s, i + 1))
    ELSE FALSE

\* /^[+-]?\d*x?\^?\d*([+-]\d*x?\^?\d*)*$/
MatchesPolynomial(s) ==
    LET i == IF Len(s) >= 1 /\ s[1] \in {"+", "-"} THEN 2 ELSE 1
    IN SignedTermsFrom(s, TermEnd(s, i))

Sin == <<"s", "i", "n">>
Cos == <<"c", "o", "s">>
Tan == <<"t", "a", "n">>
EPow == <<"e", "^">>
Ln == <<"l", "n">>

\* the first condition of determineTechnique
IsPolynomial(f) ==
    MatchesPowerOfX(f) \/ MatchesMonomial(f) \/ MatchesPolynomial(f)

\* the second condition of determineTechnique
IsTrigonometric(f) == includes(f, Sin) \/ includes(f, Cos) \/ includes(f, Tan)

\* the third condition of determineTechnique
IsExpOrLog(f) == includes(f, EPow) \/ includes(f, Ln)

\* the fourth condition of determineTechnique
IsRational(f) == includes(f, <<"/">>) \/ includes(f, <<"1", "/", "(">>)

\* determineTechnique with the e^/ln test ahead of the trigonometric test
determineTechnique_ExpBeforeTrig(func) ==
    LET f == StripWhitespace(toLowerCase(func))
    IN IF IsPolynomial(f) THEN
           [technique |-> "power",
            description |-> "This is a polynomial function. Use the power rule.",
            difficulty |-> "Easy"]
       ELSE IF IsExpOrLog(f) THEN
           IF includes(f, <<"*">>) THEN
               [technique |-> "parts",
                description |-> "This looks like it needs integration by parts.",
                difficulty |-> "Hard"]
           ELSE
               [technique |-> "substitution",
                description |-> "This might benefit from u-substitution.",
                difficulty |-> "Medium"]
       ELSE IF IsTrigonometric(f) THEN
           [technique |-> "trig",
            description |-> "This contains trigonometric functions.",
            difficulty |-> "Medium"]
       ELSE IF IsRational(f) THEN
           [technique |-> "partial",
            description |-> "This rational function may need partial fractions.",
            difficulty |-> "Hard"]
       ELSE
           [technique |-> "substitution",
            description |-> "Try u-substitution or analyze the function structure.",
            difficulty |-> "Medium"]

\* determineTechnique that rates integration by parts 'Medium'
determineTechnique_PartsMedium(func) ==
    LET f == StripWhitespace(toLowerCase(func))
    IN IF IsPolynomial(f) THEN
           [technique |-> "power",
            description |-> "This is a polynomial function. Use the power rule.",
            difficulty |-> "Easy"]
       ELSE IF IsTrigonometric(f) THEN
           [technique |-> "trig",
            description |-> "This contains trigonometric functions.",
            difficulty |-> "Medium"]
       ELSE IF IsExpOrLog(f) THEN
           IF includes(f, <<"*">>) THEN
               [technique |-> "parts",
                description |-> "This looks like it needs integration by parts.",
                difficulty |-> "Medium"]
           ELSE
               [technique |-> "substitution",
                description |-> "This might benefit from u-substitution.",
                difficulty |-> "Medium"]
       ELSE IF IsRational(f) THEN
           [technique |-> "partial",
            description |-> "This rational function may need partial fractions.",
            difficulty |-> "Hard"]
       ELSE
           [technique |-> "substitution",
            description |-> "Try u-substitution or analyze the function structure.",
            difficulty |-> "Medium"]

determineTechnique(func) ==
    LET f == StripWhitespace(toLowerCase(func))
    IN IF IsPolynomial(f) THEN
           [technique |-> "power",
            description |-> "This is a polynomial function. Use the power rule.",
            difficulty |-> "Easy"]
       ELSE IF IsTrigonometric(f) THEN
           [technique |-> "trig",
            description |-> "This contains trigonometric functions.",
            difficulty |-> "Medium"]
       ELSE IF IsExpOrLog(f) THEN
           IF includes(f, <<"*">>) THEN
               [technique |-> "parts",
                description |-> "This looks like it needs integration by parts.",
                difficulty |-> "Hard"]
           ELSE
               [technique |-> "substitution",
                description |-> "This might benefit from u-substitution.",
                difficulty |-> "Medium"]
       ELSE IF IsRational(f) THEN
           [technique |-> "partial",
            description |-> "This rational function may need partial fractions.",
            difficulty |-> "Hard"]
       ELSE
           [technique |-> "substitution",
            description |-> "Try u-substitution or analyze the function structure.",
            difficulty |-> "Medium"]

\* AppConfig.techniques: the name and the difficulty of each technique
AppConfigTechniques ==
    [power |-> [name |-> "Power Rule", difficulty |-> "Easy"],
     substitution |-> [name |-> "U-Substitution", difficulty |-> "Medium"],
     parts |-> [name |-> "Integration by Parts", difficulty |-> "Hard"],
     trig |-> [name |-> "Trigonometric Integration", difficulty |-> "Medium"],
     partial |-> [name |-> "Partial Fractions", difficulty |-> "Hard"]]

\* the Quick Start table of the README: function, technique, difficulty
QuickStartExamples ==
    { [func |-> <<"x","^","2">>, technique |-> "power", difficulty |-> "Easy"],
      [func |-> <<"s","i","n","(","x",")">>, technique |-> "trig",
       difficulty |-> "Medium"],
      [func |-> <<"x","*","e","^","x">>, technique |-> "parts", difficulty |-> "Hard"],
      [func |-> <<"2","x","/","(","x","^","2"," ","+"," ","1",")">>,
       technique |-> "substitution", difficulty |-> "Medium"] }

\* 'Answer depends on technique used'
Sentinel == <<"A","n","s","w","e","r"," ","d","e","p","e","n","d","s"," ",
              "o","n"," ","t","e","c","h","n","i","q","u","e"," ","u","s","e","d">>

calculateCorrectAnswer(func, technique) ==
    LET f == StripWhitespace(toLowerCase(func))
    IN IF technique = "power" THEN
           IF f = <<"x">> THEN <<"x","^","2","/","2">>
           ELSE IF f = <<"x","^","2">> THEN <<"x","^","3","/","3">>
           ELSE IF f = <<"x","^","3">> THEN <<"x","^","4","/","4">>
           ELSE IF f = <<"1">> THEN <<"x">>
           ELSE IF f = <<"2","x">> THEN <<"x","^","2">>
           ELSE IF f = <<"3","x","^","2">> THEN <<"x","^","3">>
           ELSE Sentinel
       ELSE IF technique = "trig" THEN
           IF f = <<"s","i","n","(","x",")">> THEN <<"-","c","o","s","(","x",")">>
           ELSE IF f = <<"c","o","s","(","x",")">> THEN <<"s","i","n","(","x",")">>
           ELSE IF f = <<"t","a","n","(","x",")">>
                THEN <<"-","l","n","|","c","o","s","(","x",")","|">>
           ELSE Sentinel
       ELSE IF includes(f, EPow) THEN
           IF f = <<"e","^","x">> THEN <<"e","^","x">>
           ELSE IF f = <<"2","e","^","x">> THEN <<"2","e","^","x">>
           ELSE Sentinel
       ELSE IF includes(f, Ln) THEN
           IF f = <<"1","/","x">> THEN <<"l","n","|","x","|">>
           ELSE Sentinel
       ELSE Sentinel

Hints(technique) ==
    IF technique = "power" THEN
        <<"Look at each term in your polynomial. What power of x does each term have?",
          "Remember: int x^n dx = x^(n+1)/(n+1) + C, where n != -1",
          "Don't forget to add the constant of integration (+C) at the end!">>
    ELSE IF technique = "trig" THEN
        <<"What are the derivatives of basic trigonometric functions?",
          "Remember: d/dx[sin(x)] = cos(x) and d/dx[cos(x)] = -sin(x)",
          "Integration is the reverse of differentiation!">>
    ELSE IF technique = "substitution" THEN
        <<"Look for a function and its derivative in the integrand.",
          "Try setting u equal to the inner function.",
          "Don't forget to substitute back after integrating!">>
    ELSE IF technique = "parts" THEN
        <<"Use the LIATE rule to choose u: Logarithmic, Inverse trig, Algebraic, Trigonometric, Exponential",
          "Remember: int u dv = uv - int v du",
          "Choose u to be the function that becomes simpler when differentiated.">>
    ELSE IF technique = "partial" THEN
        <<"Factor the denominator completely.",
          "Set up partial fractions based on the factors.",
          "Solve for the unknown coefficients using algebraic methods.">>
    ELSE <<>>

generateHints(p) == [p EXCEPT !.hints = Hints(p.technique)]

\* a step: its fixed text and the string interpolated into it
Step(text, value) == [text |-> text, value |-> value]

Steps(technique, functionString, correctAnswer) ==
    IF technique = "power" THEN
        <<Step("Identify that this is a polynomial function: ", functionString),
          Step("Apply the power rule: int x^n dx = x^(n+1)/(n+1) + C", <<>>),
          Step("Calculate the result: + C", correctAnswer)>>
    ELSE IF technique = "trig" THEN
        <<Step("Identify the trigonometric function: ", functionString),
          Step("Recall the antiderivatives of basic trig functions", <<>>),
          Step("Apply the integration: + C", correctAnswer)>>
    ELSE IF technique = "substitution" THEN
        <<Step("Analyze the function: ", functionString),
          Step("Choose an appropriate substitution u = ...", <<>>),
          Step("Calculate du and substitute", <<>>),
          Step("Integrate with respect to u", <<>>),
          Step("Substitute back to get the final answer", <<>>)>>
    ELSE IF technique = "parts" THEN
        <<Step("Identify the product: ", functionString),
          Step("Choose u and dv using LIATE rule", <<>>),
          Step("Calculate du and v", <<>>),
          Step("Apply integration by parts formula", <<>>),
          Step("Simplify to get the final answer", <<>>)>>
    ELSE IF technique = "partial" THEN
        <<Step("Factor the denominator of: ", functionString),
          Step("Set up partial fraction decomposition", <<>>),
          Step("Solve for unknown coefficients", <<>>),
          Step("Integrate each partial fraction", <<>>),
          Step("Combine results", <<>>)>>
    ELSE <<>>

generateSteps(p) ==
    [p EXCEPT !.steps = Steps(p.technique, p.functionString, p.correctAnswer)]

\* new IntegrationProblem()
NewProblem ==
    [functionString |-> <<>>, technique |-> "", difficulty |-> "",
     correctAnswer |-> <<>>, description |-> "", steps |-> <<>>, hints |-> <<>>]

analyze(p) ==
    LET analysis == determineTechnique(p.functionString)
        q == [p EXCEPT !.technique = analysis.technique,
                       !.difficulty = analysis.difficulty,
                       !.description = analysis.description,
                       !.correctAnswer =
                           calculateCorrectAnswer(p.functionString, analysis.technique)]
    IN generateSteps(generateHints(q))

setFunction(p, func) == analyze([p EXCEPT !.functionString = func])

\* IntegrationProblem.isValid
isValid(p) == p.functionString # <<>> /\ ~IsBlank(p.functionString)

----------------------------------------------------------------------------
(* AnswerValidator *)

maxAttempts == 3

PlusC == <<"+", "c">>
PlusConstant == <<"+", "c", "o", "n", "s", "t", "a", "n", "t">>

\* normalizeAnswer without toLowerCase
normalizeAnswer_KeepsCase(answer) ==
    RemoveAll(
        RemoveAll(
            StripSuffix(StripSuffix(StripWhitespace(answer), PlusC), PlusConstant),
            <<"*">>),
        <<"^", "1">>)

\* normalizeAnswer without the two replacements of the trailing constant
normalizeAnswer_KeepsConstant(answer) ==
    RemoveAll(RemoveAll(StripWhitespace(toLowerCase(answer)), <<"*">>), <<"^", "1">>)

normalizeAnswer(answer) ==
    RemoveAll(
        RemoveAll(
            StripSuffix(
                StripSuffix(StripWhitespace(toLowerCase(answer)), PlusC),
                PlusConstant),
            <<"*">>),
        <<"^", "1">>)

XSquaredOver2 == <<"x", "^", "2", "/", "2">>

\* isEquivalentAnswer without the rewrite of "0.5x^2"
isEquivalentAnswer_NoDecimalHalf(user, correct) ==
    \/ user = correct
    \/ ReplaceFirst(user, XSquaredOver2, XSquaredOver2) = correct
    \/ ReplaceFirst(user, <<"/", "2", "*", "x", "^", "2">>, XSquaredOver2) = correct

isEquivalentAnswer(user, correct) ==
    \/ user = correct
    \/ ReplaceFirst(user, XSquaredOver2, XSquaredOver2) = correct
    \/ ReplaceFirst(user, <<"/", "2", "*", "x", "^", "2">>, XSquaredOver2) = correct
    \/ ReplaceFirst(user, <<"0", ".", "5", "x", "^", "2">>, XSquaredOver2) = correct

\* s.replace(/^-/, '')
StripLeadingMinus(s) == IF Len(s) >= 1 /\ s[1] = "-" THEN Tail(s) ELSE s

\* s.replace(/\d+/, '1'): the leftmost run of digits becomes "1"
ReplaceFirstNumber(s) ==
    IF \E i \in 1..Len(s) : s[i] \in Digits
    THEN LET i == CHOOSE k \in 1..Len(s) :
                      /\ s[k] \in Digits
                      /\ \A j \in 1..(k - 1) : s[j] \notin Digits
         IN SubSeq(s, 1, i - 1) \o <<"1">> \o SubSeq(s, SkipDigits(s, i), Len(s))
    ELSE s

MissingConstantMessage == "Almost! Don't forget the constant of integration (+C)."
SignErrorMessage == "Close! Check your signs - there might be a sign error."
CoefficientMessage == "The form is right, but check your coefficient."

\* checkPartialCredit without the coefficient rule
checkPartialCredit_NoCoefficient(user, correct) ==
    IF user \o <<"c">> = correct \/ user = correct \o <<"c">> THEN
        [hasPartialCredit |-> TRUE, message |-> MissingConstantMessage]
    ELSE IF user = StripLeadingMinus(correct) \/ user = <<"-">> \o correct THEN
        [hasPartialCredit |-> TRUE, message |-> SignErrorMessage]
    ELSE
        [hasPartialCredit |-> FALSE, message |-> ""]

\* checkPartialCredit whose sign rule sees an extra "-" but not a missing one
checkPartialCredit_ExtraMinusOnly(user, correct) ==
    IF user \o <<"c">> = correct \/ user = correct \o <<"c">> THEN
        [hasPartialCredit |-> TRUE, message |-> MissingConstantMessage]
    ELSE IF user = <<"-">> \o correct THEN
        [hasPartialCredit |-> TRUE, message |-> SignErrorMessage]
    ELSE IF ReplaceFirstNumber(user) = ReplaceFirstNumber(correct) THEN
        [hasPartialCredit |-> TRUE, message |-> CoefficientMessage]
    ELSE
        [hasPartialCredit |-> FALSE, message |-> ""]

checkPartialCredit(user, correct) ==
    IF user \o <<"c">> = correct \/ user = correct \o <<"c">> THEN
        [hasPartialCredit |-> TRUE, message |-> MissingConstantMessage]
    ELSE IF user = StripLeadingMinus(correct) \/ user = <<"-">> \o correct THEN
        [hasPartialCredit |-> TRUE, message |-> SignErrorMessage]
    ELSE IF ReplaceFirstNumber(user) = ReplaceFirstNumber(correct) THEN
        [hasPartialCredit |-> TRUE, message |-> CoefficientMessage]
    ELSE
        [hasPartialCredit |-> FALSE, message |-> ""]

Verdict(isValidV, isCorrect, type, msg, feedback) ==
    [isValid |-> isValidV, isCorrect |-> isCorrect, type |-> type,
     message |-> msg, feedback |-> feedback]

\* checkAnswer that counts partial credit as a correct answer
checkAnswer_PartialIsCorrect(userAnswer, correctAnswer) ==
    LET normalizedUser == normalizeAnswer(userAnswer)
        normalizedCorrect == normalizeAnswer(correctAnswer)
        partialResult == checkPartialCredit(normalizedUser, normalizedCorrect)
    IN IF normalizedUser = normalizedCorrect THEN
           Verdict(TRUE, TRUE, "exact",
                   "Perfect! Your answer is exactly correct.", "success")
       ELSE IF isEquivalentAnswer(normalizedUser, normalizedCorrect) THEN
           Verdict(TRUE, TRUE, "equivalent",
                   "Correct! Your answer is mathematically equivalent.", "success")
       ELSE IF partialResult.hasPartialCredit THEN
           Verdict(TRUE, TRUE, "partial", partialResult.message, "warning")
       ELSE
           Verdict(TRUE, FALSE, "incorrect",
                   "Not quite right. Check your work and try again!", "error")

\* checkAnswer that asks isEquivalentAnswer before the exact comparison
checkAnswer_EquivalentFirst(userAnswer, correctAnswer) ==
    LET normalizedUser == normalizeAnswer(userAnswer)
        normalizedCorrect == normalizeAnswer(correctAnswer)
        partialResult == checkPartialCredit(normalizedUser, normalizedCorrect)
    IN IF isEquivalentAnswer(normalizedUser, normalizedCorrect) THEN
           Verdict(TRUE, TRUE, "equivalent",
                   "Correct! Your answer is mathematically equivalent.", "success")
       ELSE IF normalizedUser = normalizedCorrect THEN
           Verdict(TRUE, TRUE, "exact",
                   "Perfect! Your answer is exactly correct.", "success")
       ELSE IF partialResult.hasPartialCredit THEN
           Verdict(TRUE, FALSE, "partial", partialResult.message, "warning")
       ELSE
           Verdict(TRUE, FALSE, "incorrect",
                   "Not quite right. Check your work and try again!", "error")

checkAnswer(userAnswer, correctAnswer) ==
    LET normalizedUser == normalizeAnswer(userAnswer)
        normalizedCorrect == normalizeAnswer(correctAnswer)
        partialResult == checkPartialCredit(normalizedUser, normalizedCorrect)
    IN IF normalizedUser = normalizedCorrect THEN
           Verdict(TRUE, TRUE, "exact",
                   "Perfect! Your answer is exactly correct.", "success")
       ELSE IF isEquivalentAnswer(normalizedUser, normalizedCorrect) THEN
           Verdict(TRUE, TRUE, "equivalent",
                   "Correct! Your answer is mathematically equivalent.", "success")
       ELSE IF partialResult.hasPartialCredit THEN
           Verdict(TRUE, FALSE, "partial", partialResult.message, "warning")
       ELSE
           Verdict(TRUE, FALSE, "incorrect",
                   "Not quite right. Check your work and try again!", "error")

EmptyVerdict ==
    Verdict(FALSE, FALSE, "empty", "Please enter your answer first!", "error")

\* WithAttempts whose hasMoreAttempts is attempts <= maxAttempts
WithAttempts_Inclusive(result, attempts) ==
    [isValid |-> result.isValid, isCorrect |-> result.isCorrect,
     type |-> result.type, message |-> result.message,
     feedback |-> result.feedback, attempts |-> attempts,
     maxAttempts |-> maxAttempts, hasMoreAttempts |-> attempts <= maxAttempts]

\* the verdict of checkAnswer with the three attempt fields added
WithAttempts(result, attempts) ==
    [isValid |-> result.isValid, isCorrect |-> result.isCorrect,
     type |-> result.type, message |-> result.message,
     feedback |-> result.feedback, attempts |-> attempts,
     maxAttempts |-> maxAttempts, hasMoreAttempts |-> attempts < maxAttempts]

validateAnswer(userAnswer, correctAnswer, attempts) ==
    IF userAnswer = <<>> \/ IsBlank(userAnswer) THEN EmptyVerdict
    ELSE WithAttempts(checkAnswer(userAnswer, correctAnswer), attempts)

\* Math.min(currentProgress + 15, 90), or 100 for a correct answer
calculateProgress(attempts, isCorrect, currentProgress) ==
    IF isCorrect THEN 100
    ELSE IF currentProgress + 15 < 90 THEN currentProgress + 15 ELSE 90

----------------------------------------------------------------------------
(* Module loader and IntegrationAssistant: names *)

\* the groups of initializeModules, in the order they are loaded
ModuleGroups ==
    << {"AppConfig"},
       {"MathUtils", "IntegrationProblem", "AnswerValidator"},
       {"InterfaceView", "SolutionView", "AnswerView", "HintsView"},
       {"IntegrationController"},
       {"IntegrationAssistant"} >>

\* the names of the modules list
Modules == UNION {ModuleGroups[g] : g \in DOMAIN ModuleGroups}

\* the group of a module
GroupOf(m) == CHOOSE g \in DOMAIN ModuleGroups : m \in ModuleGroups[g]

\* the globals that waitForDependencies asks for
ModuleGlobals ==
    {"IntegrationProblem", "AnswerValidator", "MathUtils", "InterfaceView",
     "SolutionView", "AnswerView", "HintsView", "IntegrationController",
     "AppConfig"}

\* the page once every module is loaded and IntegrationAssistant.initialize
\* has completed
BootCompleted ==
    /\ moduleStatus = [m \in Modules |-> "loaded"]
    /\ loaderPc = "done"
    /\ errorBanner = FALSE
    /\ windowGlobals = ModuleGlobals \cup {"Desmos"}
    /\ waitAttempts = 1
    /\ appPc = "initialized"
    /\ appInitialized = TRUE
    /\ errorMessage = ""

----------------------------------------------------------------------------
(* IntegrationController *)

\* no verdict is displayed
NoResult == [type |-> "none"]

\* the functions a user types in the controller specification
FunctionInputs ==
    { <<>>, <<" ">>, <<"x">>, <<"X", " ", "^", "2">>,
      <<"s","i","n","(","x",")">>, <<"1","/","x">>, <<"x","*","e","^","x">> }

\* the answers a user types in the controller specification
AnswerInputs ==
    { <<>>, <<" ">>, <<"x","^","2","/","2">>, <<"x","^","3","/","3"," ","+"," ","C">>,
      <<"-","c","o","s","(","x",")">>, <<"c","o","s","(","x",")">>, Sentinel }

\* the controller after initialize(): nothing analysed, check button disabled
\* (initializeViews); the answer section is first displayed by an analysis
\* (handleAnalyzeFunction, 'Show answer section') and hidden again by a reset
InitController ==
    /\ functionInput = <<>>
    /\ answerInput = <<>>
    /\ problem = NewProblem
    /\ currentStep = 0
    /\ userAttempts = 0
    /\ revealedHints = 0
    /\ checkBtnEnabled = FALSE
    /\ answerSectionShown = FALSE
    /\ progress = 0
    /\ lastResult = NoResult
    /\ revealed = FALSE
    /\ message = ""
    /\ currentHints = <<>>
    /\ hintItems = <<>>
    /\ stepsShown = <<>>
    /\ hintBtnEnabled = FALSE
    /\ stepBtnEnabled = FALSE
    /\ progressThirds = 0
    /\ isInitialized = TRUE
    /\ listenerSets = 1
    /\ BootCompleted

InitFunction ==
    /\ arg = <<>>
    /\ ret = <<>>
    /\ pc = "idle"

Init == InitController /\ InitFunction

\* the user edits the function field (handleFunctionInput only redraws the preview)
TypeFunction(f) ==
    /\ functionInput' = f
    /\ UNCHANGED <<answerInput, problem, currentStep, userAttempts, revealedHints,
                   checkBtnEnabled, answerSectionShown, progress, lastResult,
                   revealed, message, guideVars, progressThirds, funVars, initVars, bootVars>>

\* the user edits the answer field, which exists on screen while the answer
\* section is shown (handleAnswerInput only redraws the preview)
TypeAnswer(a) ==
    /\ answerSectionShown
    /\ answerInput' = a
    /\ UNCHANGED <<functionInput, problem, currentStep, userAttempts, revealedHints,
                   checkBtnEnabled, answerSectionShown, progress, lastResult,
                   revealed, message, guideVars, progressThirds, funVars, initVars, bootVars>>

\* resetState followed by problem.setFunction(func)
resetState(p) == setFunction(p, <<>>)

\* setupHintsAccordion: one item for each hint, not displayed
HintItems(hints) ==
    [i \in 1..Len(hints) |-> [hint |-> hints[i], display |-> FALSE]]

\* handleAnalyzeFunction whose resetState leaves userAttempts as it is
handleAnalyzeFunction_KeepsAttempts ==
    /\ IF IsBlank(functionInput)
       THEN /\ message' = "Please enter a function first!"
            /\ UNCHANGED <<problem, currentStep, userAttempts, revealedHints,
                           checkBtnEnabled, answerSectionShown, progress,
                           guideVars, progressThirds>>
       ELSE /\ currentStep' = 0
            /\ UNCHANGED userAttempts
            /\ problem' = setFunction(resetState(problem), functionInput)
            /\ hintBtnEnabled' = TRUE
            /\ stepBtnEnabled' = TRUE
            /\ stepsShown' = <<>>
            /\ currentHints' = problem'.hints
            /\ revealedHints' = 0
            /\ hintItems' = HintItems(problem'.hints)
            /\ answerSectionShown' = TRUE
            /\ checkBtnEnabled' = TRUE
            /\ progress' = 10
            /\ progressThirds' = 0
            /\ UNCHANGED message
    /\ UNCHANGED <<functionInput, answerInput, lastResult, revealed, funVars, initVars, bootVars>>

handleAnalyzeFunction ==
    /\ IF IsBlank(functionInput)
       THEN /\ message' = "Please enter a function first!"
            /\ UNCHANGED <<problem, currentStep, userAttempts, revealedHints,
                           checkBtnEnabled, answerSectionShown, progress,
                           guideVars, progressThirds>>
       ELSE /\ currentStep' = 0
            /\ userAttempts' = 0
            /\ problem' = setFunction(resetState(problem), functionInput)
            /\ hintBtnEnabled' = TRUE
            /\ stepBtnEnabled' = TRUE
            /\ stepsShown' = <<>>
            /\ currentHints' = problem'.hints
            /\ revealedHints' = 0
            /\ hintItems' = HintItems(problem'.hints)
            /\ answerSectionShown' = TRUE
            /\ checkBtnEnabled' = TRUE
            /\ progress' = 10
            /\ progressThirds' = 0
            /\ UNCHANGED message
    /\ UNCHANGED <<functionInput, answerInput, lastResult, revealed, funVars, initVars, bootVars>>

\* handleValidateAnswer that reveals the answer once userAttempts > maxAttempts
handleValidateAnswer_RevealAfterThird ==
    /\ userAttempts < MaxSubmits
    /\ IF ~isValid(problem)
       THEN /\ message' = "Please analyze a function first!"
            /\ UNCHANGED <<userAttempts, lastResult, revealed, checkBtnEnabled,
                           progress, progressThirds>>
       ELSE IF IsBlank(answerInput)
       THEN /\ message' = "Please enter your answer first!"
            /\ UNCHANGED <<userAttempts, lastResult, revealed, checkBtnEnabled,
                           progress, progressThirds>>
       ELSE LET result == validateAnswer(answerInput, problem.correctAnswer,
                                         userAttempts + 1)
            IN /\ userAttempts' = userAttempts + 1
               /\ lastResult' = result
               /\ progressThirds' = 0
               /\ IF result.isCorrect
                  THEN \* handleCorrectAnswer
                       /\ progress' = 100
                       /\ checkBtnEnabled' = FALSE
                       /\ revealed' = FALSE
                       /\ message' = "Excellent work! You solved it correctly!"
                  ELSE IF userAttempts' > maxAttempts
                  THEN \* handleMaxAttemptsReached
                       /\ revealed' = TRUE
                       /\ checkBtnEnabled' = FALSE
                       /\ progress' = 75
                       /\ UNCHANGED message
                  ELSE \* handleIncorrectAnswer
                       /\ progress' = calculateProgress(userAttempts', FALSE, progress)
                       /\ revealed' = FALSE
                       /\ UNCHANGED <<checkBtnEnabled, message>>
    /\ UNCHANGED <<functionInput, answerInput, problem, currentStep, revealedHints,
                   answerSectionShown, guideVars, funVars, initVars, bootVars>>

handleValidateAnswer ==
    /\ userAttempts < MaxSubmits
    /\ IF ~isValid(problem)
       THEN /\ message' = "Please analyze a function first!"
            /\ UNCHANGED <<userAttempts, lastResult, revealed, checkBtnEnabled,
                           progress, progressThirds>>
       ELSE IF IsBlank(answerInput)
       THEN /\ message' = "Please enter your answer first!"
            /\ UNCHANGED <<userAttempts, lastResult, revealed, checkBtnEnabled,
                           progress, progressThirds>>
       ELSE LET result == validateAnswer(answerInput, problem.correctAnswer,
                                         userAttempts + 1)
            IN /\ userAttempts' = userAttempts + 1
               /\ lastResult' = result
               /\ progressThirds' = 0
               /\ IF result.isCorrect
                  THEN \* handleCorrectAnswer
                       /\ progress' = 100
                       /\ checkBtnEnabled' = FALSE
                       /\ revealed' = FALSE
                       /\ message' = "Excellent work! You solved it correctly!"
                  ELSE IF userAttempts' >= maxAttempts
                  THEN \* handleMaxAttemptsReached
                       /\ revealed' = TRUE
                       /\ checkBtnEnabled' = FALSE
                       /\ progress' = 75
                       /\ UNCHANGED message
                  ELSE \* handleIncorrectAnswer
                       /\ progress' = calculateProgress(userAttempts', FALSE, progress)
                       /\ revealed' = FALSE
                       /\ UNCHANGED <<checkBtnEnabled, message>>
    /\ UNCHANGED <<functionInput, answerInput, problem, currentStep, revealedHints,
                   answerSectionShown, guideVars, funVars, initVars, bootVars>>

\* click on #checkAnswerBtn: a disabled button delivers no click
ClickCheckAnswer ==
    /\ checkBtnEnabled
    /\ handleValidateAnswer

\* Enter pressed in #answerInput: the keypress listener asks nothing of the button
PressEnterInAnswer == handleValidateAnswer

\* the techniques that the change event of #techniqueSelect delivers, and the
\* empty value of a select that names none
TechniqueInputs == {""} \cup DOMAIN AppConfigTechniques

\* Math.min(20 + (k / n) * 40, 60): its whole percents and its thirds
StepProgress(k, n) ==
    IF 20 * n + 40 * k >= 60 * n THEN 60 ELSE 20 + (40 * k) \div n

StepProgressThirds(k, n) ==
    IF 20 * n + 40 * k >= 60 * n THEN 0 ELSE (3 * ((40 * k) % n)) \div n

\* handleShowHint whose revealNextHint takes the item after the next one
handleShowHint_OffByOne ==
    /\ IF ~isValid(problem)
       THEN /\ message' = "Please analyze a function first!"
            /\ UNCHANGED <<revealedHints, hintItems, hintBtnEnabled, progress,
                           progressThirds>>
       ELSE IF /\ revealedHints < Len(currentHints)
               /\ revealedHints + 2 \in DOMAIN hintItems
       THEN /\ hintItems' = [hintItems EXCEPT ![revealedHints + 2].display = TRUE]
            /\ revealedHints' = revealedHints + 1
            /\ hintBtnEnabled' = (revealedHints' < Len(currentHints))
            /\ progress' = (IF progress < 30 THEN progress ELSE 30) + 5
            /\ progressThirds' = (IF progress < 30 THEN progressThirds ELSE 0)
            /\ UNCHANGED message
       ELSE /\ message' = "No more hints available!"
            /\ UNCHANGED <<revealedHints, hintItems, hintBtnEnabled, progress,
                           progressThirds>>
    /\ UNCHANGED <<functionInput, answerInput, problem, currentStep, userAttempts,
                   checkBtnEnabled, answerSectionShown, lastResult, revealed,
                   currentHints, stepsShown, stepBtnEnabled, funVars, initVars, bootVars>>

\* handleShowHint without the test of problem.isValid()
handleShowHint_Unguarded ==
    /\ IF FALSE
       THEN /\ message' = "Please analyze a function first!"
            /\ UNCHANGED <<revealedHints, hintItems, hintBtnEnabled, progress,
                           progressThirds>>
       ELSE IF /\ revealedHints < Len(currentHints)
               /\ revealedHints + 1 \in DOMAIN hintItems
       THEN /\ hintItems' = [hintItems EXCEPT ![revealedHints + 1].display = TRUE]
            /\ revealedHints' = revealedHints + 1
            /\ hintBtnEnabled' = (revealedHints' < Len(currentHints))
            /\ progress' = (IF progress < 30 THEN progress ELSE 30) + 5
            /\ progressThirds' = (IF progress < 30 THEN progressThirds ELSE 0)
            /\ UNCHANGED message
       ELSE /\ message' = "No more hints available!"
            /\ UNCHANGED <<revealedHints, hintItems, hintBtnEnabled, progress,
                           progressThirds>>
    /\ UNCHANGED <<functionInput, answerInput, problem, currentStep, userAttempts,
                   checkBtnEnabled, answerSectionShown, lastResult, revealed,
                   currentHints, stepsShown, stepBtnEnabled, funVars, initVars, bootVars>>

\* handleShowHint with HintsView.revealNextHint; the handler runs on a click of
\* #hintBtn and on any other call of this public method
handleShowHint ==
    /\ IF ~isValid(problem)
       THEN /\ message' = "Please analyze a function first!"
            /\ UNCHANGED <<revealedHints, hintItems, hintBtnEnabled, progress,
                           progressThirds>>
       ELSE IF /\ revealedHints < Len(currentHints)
               /\ revealedHints + 1 \in DOMAIN hintItems
       THEN /\ hintItems' = [hintItems EXCEPT ![revealedHints + 1].display = TRUE]
            /\ revealedHints' = revealedHints + 1
            /\ hintBtnEnabled' = (revealedHints' < Len(currentHints))
            /\ progress' = (IF progress < 30 THEN progress ELSE 30) + 5
            /\ progressThirds' = (IF progress < 30 THEN progressThirds ELSE 0)
            /\ UNCHANGED message
       ELSE /\ message' = "No more hints available!"
            /\ UNCHANGED <<revealedHints, hintItems, hintBtnEnabled, progress,
                           progressThirds>>
    /\ UNCHANGED <<functionInput, answerInput, problem, currentStep, userAttempts,
                   checkBtnEnabled, answerSectionShown, lastResult, revealed,
                   currentHints, stepsShown, stepBtnEnabled, funVars, initVars, bootVars>>

\* handleNextStep that accepts a request while currentStep <= steps.length
handleNextStep_Inclusive ==
    /\ IF ~isValid(problem)
       THEN /\ message' = "Please analyze a function first!"
            /\ UNCHANGED <<currentStep, stepsShown, stepBtnEnabled, progress,
                           progressThirds>>
       ELSE IF currentStep <= Len(problem.steps)
       THEN /\ stepsShown' = Append(stepsShown,
                                    [step |-> IF currentStep + 1 \in DOMAIN problem.steps
                                              THEN problem.steps[currentStep + 1]
                                              ELSE Step("undefined", <<>>),
                                     number |-> currentStep + 1])
            /\ currentStep' = currentStep + 1
            /\ progress' = StepProgress(currentStep', Len(problem.steps))
            /\ progressThirds' = StepProgressThirds(currentStep', Len(problem.steps))
            /\ stepBtnEnabled' = (IF currentStep' >= Len(problem.steps)
                                  THEN FALSE ELSE stepBtnEnabled)
            /\ UNCHANGED message
       ELSE UNCHANGED <<currentStep, stepsShown, stepBtnEnabled, progress,
                        progressThirds, message>>
    /\ UNCHANGED <<functionInput, answerInput, problem, userAttempts, revealedHints,
                   checkBtnEnabled, answerSectionShown, lastResult, revealed,
                   currentHints, hintItems, hintBtnEnabled, funVars, initVars, bootVars>>

\* handleNextStep with SolutionView.addStep
handleNextStep ==
    /\ IF ~isValid(problem)
       THEN /\ message' = "Please analyze a function first!"
            /\ UNCHANGED <<currentStep, stepsShown, stepBtnEnabled, progress,
                           progressThirds>>
       ELSE IF currentStep < Len(problem.steps)
       THEN /\ stepsShown' = Append(stepsShown,
                                    [step |-> problem.steps[currentStep + 1],
                                     number |-> currentStep + 1])
            /\ currentStep' = currentStep + 1
            /\ progress' = StepProgress(currentStep', Len(problem.steps))
            /\ progressThirds' = StepProgressThirds(currentStep', Len(problem.steps))
            /\ stepBtnEnabled' = (IF currentStep' >= Len(problem.steps)
                                  THEN FALSE ELSE stepBtnEnabled)
            /\ UNCHANGED message
       ELSE UNCHANGED <<currentStep, stepsShown, stepBtnEnabled, progress,
                        progressThirds, message>>
    /\ UNCHANGED <<functionInput, answerInput, problem, userAttempts, revealedHints,
                   checkBtnEnabled, answerSectionShown, lastResult, revealed,
                   currentHints, hintItems, hintBtnEnabled, funVars, initVars, bootVars>>

\* handleTechniqueChange that leaves currentStep where it was
handleTechniqueChange_KeepsStep(technique) ==
    /\ IF technique # "" /\ technique # problem.technique
       THEN /\ problem' = generateSteps(generateHints(
                               [problem EXCEPT !.technique = technique]))
            /\ UNCHANGED currentStep
            /\ stepsShown' = <<>>
            /\ currentHints' = problem'.hints
            /\ revealedHints' = 0
            /\ hintItems' = HintItems(problem'.hints)
            /\ hintBtnEnabled' = TRUE
            /\ stepBtnEnabled' = TRUE
       ELSE UNCHANGED <<problem, currentStep, revealedHints, guideVars>>
    /\ UNCHANGED <<functionInput, answerInput, userAttempts, checkBtnEnabled,
                   answerSectionShown, progress, progressThirds, lastResult,
                   revealed, message, funVars, initVars, bootVars>>

\* handleTechniqueChange with HintsView.reset and initializeHints
handleTechniqueChange(technique) ==
    /\ IF technique # "" /\ technique # problem.technique
       THEN /\ problem' = generateSteps(generateHints(
                               [problem EXCEPT !.technique = technique]))
            /\ currentStep' = 0
            /\ stepsShown' = <<>>
            /\ currentHints' = problem'.hints
            /\ revealedHints' = 0
            /\ hintItems' = HintItems(problem'.hints)
            /\ hintBtnEnabled' = TRUE
            /\ stepBtnEnabled' = TRUE
       ELSE UNCHANGED <<problem, currentStep, revealedHints, guideVars>>
    /\ UNCHANGED <<functionInput, answerInput, userAttempts, checkBtnEnabled,
                   answerSectionShown, progress, progressThirds, lastResult,
                   revealed, message, funVars, initVars, bootVars>>

\* resetState, resetViews
handleReset ==
    /\ currentStep' = 0
    /\ userAttempts' = 0
    /\ problem' = resetState(problem)
    /\ progress' = 0
    /\ answerInput' = <<>>
    /\ lastResult' = NoResult
    /\ revealed' = FALSE
    /\ checkBtnEnabled' = FALSE
    /\ answerSectionShown' = FALSE
    /\ hintBtnEnabled' = FALSE
    /\ stepBtnEnabled' = FALSE
    /\ stepsShown' = <<>>
    /\ hintItems' = <<>>
    /\ currentHints' = <<>>
    /\ revealedHints' = 0
    /\ progressThirds' = 0
    /\ functionInput' = <<>>
    /\ UNCHANGED <<message, funVars, initVars, bootVars>>

Next ==
    \/ \E f \in FunctionInputs : TypeFunction(f)
    \/ \E a \in AnswerInputs : TypeAnswer(a)
    \/ handleAnalyzeFunction
    \/ ClickCheckAnswer
    \/ PressEnterInAnswer
    \/ handleReset

Spec == Init /\ [][Next]_vars

\* the functions a user types in the guidance specification: a blank one, one
\* of a technique with three steps and one of a technique with five
GuideFunctionInputs ==
    { <<>>, <<"x">>, <<"x","*","e","^","x">> }

\* analyses, hint and step requests, technique changes and resets
NextGuide ==
    \/ \E f \in GuideFunctionInputs : TypeFunction(f)
    \/ handleAnalyzeFunction
    \/ handleShowHint
    \/ handleNextStep
    \/ \E t \in TechniqueInputs : handleTechniqueChange(t)
    \/ handleReset

SpecGuide == Init /\ [][NextGuide]_vars

\* the functions, the answers and the techniques a user enters in the session
\* specification; the function field is blank at the start and after a reset
SessionFunctionInputs ==
    { <<"x">>, <<"s","i","n","(","x",")">> }

SessionAnswerInputs ==
    { <<"x","^","2","/","2">>, <<"c","o","s","(","x",")">> }

SessionTechniqueInputs == {"", "parts"}

\* every event of the page
NextSession ==
    \/ \E f \in SessionFunctionInputs : TypeFunction(f)
    \/ \E a \in SessionAnswerInputs : TypeAnswer(a)
    \/ handleAnalyzeFunction
    \/ handleShowHint
    \/ handleNextStep
    \/ \E t \in SessionTechniqueInputs : handleTechniqueChange(t)
    \/ userAttempts < MaxSessionSubmits /\ ClickCheckAnswer
    \/ userAttempts < MaxSessionSubmits /\ PressEnterInAnswer
    \/ handleReset

SpecSession == Init /\ [][NextSession]_vars

\* the names that validateDependencies requires
Dependencies ==
    {"problem", "validator", "interfaceView", "solutionView", "answerView",
     "hintsView"}

\* validateDependencies that does not ask for the hints view
validateDependencies_NoHintsView(dependencies) ==
    \A dep \in Dependencies \ {"hintsView"} : dep \in dependencies

\* validateDependencies on the fields just assigned from the dependencies
validateDependencies(dependencies) ==
    \A dep \in Dependencies : dep \in dependencies

\* a controller after its constructor: no dependency held, not initialized, no
\* listener registered; the page's markup decides the state of the buttons
InitConstructed ==
    /\ functionInput = <<>>
    /\ answerInput = <<>>
    /\ problem = NewProblem
    /\ currentStep = 0
    /\ userAttempts = 0
    /\ revealedHints = 0
    /\ checkBtnEnabled \in BOOLEAN
    /\ hintBtnEnabled \in BOOLEAN
    /\ stepBtnEnabled \in BOOLEAN
    /\ answerSectionShown = FALSE
    /\ progress = 0
    /\ progressThirds = 0
    /\ lastResult = NoResult
    /\ revealed = FALSE
    /\ message = ""
    /\ currentHints = <<>>
    /\ hintItems = <<>>
    /\ stepsShown = <<>>
    /\ isInitialized = FALSE
    /\ listenerSets = 0
    /\ moduleStatus = [m \in Modules |-> "loaded"]
    /\ loaderPc = "done"
    /\ errorBanner = FALSE
    /\ windowGlobals = ModuleGlobals \cup {"Desmos"}
    /\ waitAttempts = 1
    /\ appPc = "controller"
    /\ appInitialized = FALSE
    /\ errorMessage = ""
    /\ arg = {}
    /\ ret = ""
    /\ pc = "constructed"

\* controller.initialize(dependencies), dependencies being the set of names
\* that the object holds; arg is the set of fields assigned, ret the message of
\* the error thrown
initialize(dependencies) ==
    /\ listenerSets < MaxInitializeCalls
    /\ arg' = dependencies
    /\ IF validateDependencies(dependencies)
       THEN /\ listenerSets' = listenerSets + 1
            /\ progress' = 0
            /\ progressThirds' = 0
            /\ hintBtnEnabled' = FALSE
            /\ stepBtnEnabled' = FALSE
            /\ checkBtnEnabled' = FALSE
            /\ isInitialized' = TRUE
            /\ ret' = ""
            /\ pc' = "initialized"
       ELSE /\ ret' = "Missing required dependencies"
            /\ pc' = "thrown"
            /\ UNCHANGED <<listenerSets, progress, progressThirds, hintBtnEnabled,
                           stepBtnEnabled, checkBtnEnabled, isInitialized>>
    /\ UNCHANGED <<functionInput, answerInput, problem, currentStep, userAttempts,
                   revealedHints, answerSectionShown, lastResult, revealed, message,
                   currentHints, hintItems, stepsShown, bootVars>>

NextInitialize == \E dependencies \in SUBSET Dependencies : initialize(dependencies)

SpecInitialize == InitConstructed /\ [][NextInitialize]_vars

----------------------------------------------------------------------------
(* MathUtils.validateInput on its own *)

\* (s.match(/c/g) || []).length for a one-character pattern
CountChar(s, c) == Cardinality({i \in 1..Len(s) : s[i] = c})

\* the character class of validChars
ValidChars ==
    {LowerAlpha[i] : i \in 1..26} \cup {UpperAlpha[i] : i \in 1..26}
        \cup Digits \cup Whitespace
        \cup {"+", "-", "*", "/", "^", "(", ")", ".", ",", "|"}

\* /^[a-zA-Z0-9+\-*/^().\s,|]+$/.test(s)
AllValidChars(s) == s # <<>> /\ \A i \in 1..Len(s) : s[i] \in ValidChars

\* MathUtils.validateInput(input): isValid and message of the result
validateInput(input) ==
    IF IsBlank(input)
    THEN [isValid |-> FALSE, message |-> "Input cannot be empty"]
    ELSE IF CountChar(input, "(") # CountChar(input, ")")
    THEN [isValid |-> FALSE, message |-> "Unbalanced parentheses"]
    ELSE IF ~AllValidChars(input)
    THEN [isValid |-> FALSE, message |-> "Invalid characters detected"]
    ELSE [isValid |-> TRUE, message |-> "Valid input"]

\* pieces the inputs of validateInput are put together from
InputFragments == { <<"(">>, <<")">>, <<"x">>, <<" ">>, <<"#">> }

ValidateInputInputs ==
    {Concat(ss) : ss \in SeqsUpTo(InputFragments, MaxInputFragments)}

InitValidateInput ==
    /\ InitController
    /\ arg \in ValidateInputInputs
    /\ ret = [isValid |-> FALSE, message |-> ""]
    /\ pc = "call"

\* MathUtils.validateInput(arg)
ValidateInputCall ==
    /\ pc = "call"
    /\ ret' = validateInput(arg)
    /\ pc' = "validated"
    /\ UNCHANGED <<arg, ctlVars, bootVars>>

NextValidateInput == ValidateInputCall

SpecValidateInput == InitValidateInput /\ [][NextValidateInput]_vars

----------------------------------------------------------------------------
(* Module loader: initializeModules and loadModule *)

\* the name initializeModules gives to each group, in loading order
GroupNames == <<"config", "models", "views", "controller", "app">>

\* every module of group g has finished loadModule
GroupLoaded(status, g) == \A m \in ModuleGroups[g] : status[m] = "loaded"

\* loadModule is called on every module of group g: each fetch is sent
StartGroup(status, g) ==
    [m \in Modules |-> IF m \in ModuleGroups[g] THEN "fetching" ELSE status[m]]

\* the page before any script has run: the markup alone, no controller, no
\* global of the application, no module requested
InitLoader ==
    /\ functionInput = <<>>
    /\ answerInput = <<>>
    /\ problem = NewProblem
    /\ currentStep = 0
    /\ userAttempts = 0
    /\ revealedHints = 0
    /\ checkBtnEnabled \in BOOLEAN
    /\ hintBtnEnabled \in BOOLEAN
    /\ stepBtnEnabled \in BOOLEAN
    /\ answerSectionShown = FALSE
    /\ progress = 0
    /\ progressThirds = 0
    /\ lastResult = NoResult
    /\ revealed = FALSE
    /\ message = ""
    /\ currentHints = <<>>
    /\ hintItems = <<>>
    /\ stepsShown = <<>>
    /\ isInitialized = FALSE
    /\ listenerSets = 0
    /\ moduleStatus = [m \in Modules |-> "idle"]
    /\ loaderPc = "ready"
    /\ errorBanner = FALSE
    /\ windowGlobals = {}
    /\ waitAttempts = 0
    /\ appPc = "absent"
    /\ appInitialized = FALSE
    /\ errorMessage = ""
    /\ arg = {}
    /\ ret = ""
    /\ pc = "absent"

\* initializeModules up to its first await: loadModule of the configuration
initializeModules ==
    /\ loaderPc = "ready"
    /\ moduleStatus' = StartGroup(moduleStatus, 1)
    /\ loaderPc' = GroupNames[1]
    /\ UNCHANGED <<errorBanner, ctlVars, funVars, assistantVars>>

\* initializeModules resumes after the await of group g with the statuses
\* given: the next group is requested, or the last message is logged; a
\* Promise.all is fulfilled when any one of its promises is
AwaitGroup_Race(status, g) ==
    IF \E m \in ModuleGroups[g] : status[m] = "loaded"
    THEN IF g < Len(ModuleGroups)
         THEN /\ moduleStatus' = StartGroup(status, g + 1)
              /\ loaderPc' = GroupNames[g + 1]
         ELSE /\ moduleStatus' = status
              /\ loaderPc' = "done"
    ELSE /\ moduleStatus' = status
         /\ UNCHANGED loaderPc

\* initializeModules resumes after the await of group g with the statuses
\* given: the for loop over one module and Promise.all over the group are both
\* fulfilled once every loadModule of the group is
AwaitGroup(status, g) ==
    IF GroupLoaded(status, g)
    THEN IF g < Len(ModuleGroups)
         THEN /\ moduleStatus' = StartGroup(status, g + 1)
              /\ loaderPc' = GroupNames[g + 1]
         ELSE /\ moduleStatus' = status
              /\ loaderPc' = "done"
    ELSE /\ moduleStatus' = status
         /\ UNCHANGED loaderPc

\* the catch of initializeModules: the error banner is put at the top of the
\* page; a second rejection of the same Promise.all is not seen
CatchLoadError(status, g) ==
    /\ moduleStatus' = status
    /\ IF loaderPc = GroupNames[g]
       THEN /\ errorBanner' = TRUE
            /\ loaderPc' = "failed"
       ELSE UNCHANGED <<errorBanner, loaderPc>>

\* loadModule: the fetch of module m settles; ok is false for a rejected fetch
\* and for a response whose ok is false, both of which make loadModule throw
FetchSettles(m, ok) ==
    /\ moduleStatus[m] = "fetching"
    /\ IF ok
       THEN /\ moduleStatus' = [moduleStatus EXCEPT ![m] = "reading"]
            /\ UNCHANGED <<errorBanner, loaderPc>>
       ELSE CatchLoadError([moduleStatus EXCEPT ![m] = "failed"], GroupOf(m))
    /\ UNCHANGED <<ctlVars, funVars, assistantVars>>

\* loadModule: response.text() of module m settles; when it is fulfilled the
\* content is run as a script and loadModule returns
TextSettles(m, ok) ==
    /\ moduleStatus[m] = "reading"
    /\ IF ok
       THEN /\ IF loaderPc = GroupNames[GroupOf(m)]
               THEN AwaitGroup([moduleStatus EXCEPT ![m] = "loaded"], GroupOf(m))
               ELSE /\ moduleStatus' = [moduleStatus EXCEPT ![m] = "loaded"]
                    /\ UNCHANGED loaderPc
            /\ UNCHANGED errorBanner
       ELSE CatchLoadError([moduleStatus EXCEPT ![m] = "failed"], GroupOf(m))
    /\ UNCHANGED <<ctlVars, funVars, assistantVars>>

NextLoader ==
    \/ initializeModules
    \/ \E m \in Modules, ok \in BOOLEAN : FetchSettles(m, ok)
    \/ \E m \in Modules, ok \in BOOLEAN : TextSettles(m, ok)

SpecLoader == InitLoader /\ [][NextLoader]_vars

----------------------------------------------------------------------------
(* IntegrationAssistant.initialize *)

\* maxAttempts of waitForDependencies
waitMaxAttempts == 50

\* the globals that may be defined late or never; the others are defined
\* before the application starts
LateGlobals == {"AppConfig", "HintsView", "IntegrationController", "Desmos"}

\* the checks of checkDependencies: all nine globals are defined
DependenciesAvailable(globals) == ModuleGlobals \subseteq globals

\* every module has been run as a script and the application object has been
\* constructed; no controller yet
InitAssistant ==
    /\ functionInput = <<>>
    /\ answerInput = <<>>
    /\ problem = NewProblem
    /\ currentStep = 0
    /\ userAttempts = 0
    /\ revealedHints = 0
    /\ checkBtnEnabled \in BOOLEAN
    /\ hintBtnEnabled \in BOOLEAN
    /\ stepBtnEnabled \in BOOLEAN
    /\ answerSectionShown = FALSE
    /\ progress = 0
    /\ progressThirds = 0
    /\ lastResult = NoResult
    /\ revealed = FALSE
    /\ message = ""
    /\ currentHints = <<>>
    /\ hintItems = <<>>
    /\ stepsShown = <<>>
    /\ isInitialized = FALSE
    /\ listenerSets = 0
    /\ moduleStatus = [m \in Modules |-> "loaded"]
    /\ loaderPc = "done"
    /\ errorBanner = FALSE
    /\ windowGlobals = (ModuleGlobals \cup {"Desmos"}) \ LateGlobals
    /\ waitAttempts = 0
    /\ appPc = "constructed"
    /\ appInitialized = FALSE
    /\ errorMessage = ""
    /\ arg = {}
    /\ ret = ""
    /\ pc = "absent"

\* the catch of initialize: the message is shown to the user and the error is
\* thrown again
InitializeFails(text) ==
    /\ errorMessage' = text
    /\ appPc' = "failed"
    /\ UNCHANGED <<appInitialized, ctlVars>>

\* initialize from the fulfilment of initializeDesmosCalculator to its end:
\* models and views are created, validateViews is asked, the controller is
\* created and initialized with all six dependencies, isInitialized is set
FinishInitialize(viewsValid) ==
    IF ~viewsValid
    THEN InitializeFails("Required DOM elements not found")
    ELSE /\ listenerSets' = listenerSets + 1
         /\ progress' = 0
         /\ progressThirds' = 0
         /\ hintBtnEnabled' = FALSE
         /\ stepBtnEnabled' = FALSE
         /\ checkBtnEnabled' = FALSE
         /\ isInitialized' = TRUE
         /\ appInitialized' = TRUE
         /\ appPc' = "initialized"
         /\ UNCHANGED <<errorMessage, functionInput, answerInput, problem,
                        currentStep, userAttempts, revealedHints,
                        answerSectionShown, lastResult, revealed, message,
                        currentHints, hintItems, stepsShown>>

\* initializeDesmosCalculator and checkDesmos: with window.Desmos defined the
\* promise is fulfilled and initialize goes on; without it checkDesmos is set
\* to run again after 100 ms, with no limit on the number of runs
DesmosStep(viewsValid) ==
    IF "Desmos" \in windowGlobals
    THEN FinishInitialize(viewsValid)
    ELSE /\ appPc' = "initializeDesmosCalculator"
         /\ UNCHANGED <<appInitialized, errorMessage, ctlVars>>

\* one run of checkDependencies, the n-th being counted
CheckDependenciesStep(n, viewsValid) ==
    /\ waitAttempts' = n + 1
    /\ IF DependenciesAvailable(windowGlobals)
       THEN DesmosStep(viewsValid)
       ELSE IF n + 1 >= waitMaxAttempts
       THEN InitializeFails("Dependencies failed to load within timeout")
       ELSE /\ appPc' = "waitForDependencies"
            /\ UNCHANGED <<appInitialized, errorMessage, ctlVars>>

\* app.initialize() up to its first wait: waitForDependencies runs
\* checkDependencies at once
assistantInitialize(viewsValid) ==
    /\ appPc = "constructed"
    /\ CheckDependenciesStep(0, viewsValid)
    /\ UNCHANGED <<windowGlobals, loaderVars, funVars>>

\* the timer of waitForDependencies fires
checkDependencies(viewsValid) ==
    /\ appPc = "waitForDependencies"
    /\ CheckDependenciesStep(waitAttempts, viewsValid)
    /\ UNCHANGED <<windowGlobals, loaderVars, funVars>>

\* the timer of initializeDesmosCalculator fires
checkDesmos(viewsValid) ==
    /\ appPc = "initializeDesmosCalculator"
    /\ DesmosStep(viewsValid)
    /\ UNCHANGED <<windowGlobals, waitAttempts, loaderVars, funVars>>

\* a script that had not defined its global yet defines it
ScriptArrives(g) ==
    /\ g \notin windowGlobals
    /\ windowGlobals' = windowGlobals \cup {g}
    /\ UNCHANGED <<waitAttempts, appPc, appInitialized, errorMessage, ctlVars,
                   loaderVars, funVars>>

NextAssistant ==
    \/ \E viewsValid \in BOOLEAN : assistantInitialize(viewsValid)
    \/ \E viewsValid \in BOOLEAN : checkDependencies(viewsValid)
    \/ \E viewsValid \in BOOLEAN : checkDesmos(viewsValid)
    \/ \E g \in LateGlobals : ScriptArrives(g)

\* the call of initialize and every timer set do run; no script has to arrive
SpecAssistant ==
    /\ InitAssistant
    /\ [][NextAssistant]_vars
    /\ WF_vars(\E viewsValid \in BOOLEAN : assistantInitialize(viewsValid))
    /\ WF_vars(\E viewsValid \in BOOLEAN : checkDependencies(viewsValid))
    /\ WF_vars(\E viewsValid \in BOOLEAN : checkDesmos(viewsValid))

----------------------------------------------------------------------------
(* IntegrationProblem on its own: one call on a fresh problem *)

\* pieces the inputs of the classifier are put together from
ProblemFragments ==
    { <<"x">>,
      <<"^">>,
      <<"2">>,
      <<"1">>,
      <<"+">>,
      <<"s","i","n">>,
      <<"(","x",")">>,
      <<"e","^">>,
      <<"l","n">>,
      <<"*">>,
      <<"/">>,
      <<" ">>,
      <<"X">> }

\* inputs longer than MaxFragments pieces: the functions of the answer table,
\* the examples of the documentation, spellings with capitals and blanks
ProblemExamples ==
    { <<"c","o","s","(","x",")">>,
      <<"t","a","n","(","x",")">>,
      <<"x","^","3">>,
      <<"2","x">>,
      <<"3","x","^","2">>,
      <<"2","e","^","x">>,
      <<"s","i","n","(","x",")">>,
      <<"1","/","x">>,
      <<"e","^","x">>,
      <<"S","I","N","("," ","X"," ",")">>,
      <<" ","3"," ","X"," ","^"," ","2">>,
      <<"T","a","n","(","x",")"," ">>,
      <<"2"," ","E","^","X">>,
      <<"1"," ","/"," ","X">>,
      <<"\t">>,
      <<"s","i","n","(","x",")","*","e","^","x">>,
      <<"e","^","x","/","x">>,
      <<"x","*","e","^","x">>,
      <<"2","x","/","(","x","^","2"," ","+"," ","1",")">>,
      <<"c","o","s","x">>,
      <<"x","^","2","+","s","i","n","(","x",")">>,
      <<"l","n","(","x",")">>,
      <<"1","/","(","x","+","1",")">> }

ProblemInputs ==
    {Concat(ss) : ss \in SeqsUpTo(ProblemFragments, MaxFragments)} \cup ProblemExamples

InitProblem ==
    /\ InitController
    /\ arg \in ProblemInputs
    /\ ret = <<>>
    /\ pc = "call"

\* problem.determineTechnique(arg)
DetermineTechniqueCall ==
    /\ pc = "call"
    /\ ret' = determineTechnique(arg)
    /\ pc' = "classified"
    /\ UNCHANGED <<arg, ctlVars, bootVars>>

\* problem.setFunction(arg)
SetFunctionCall ==
    /\ pc = "call"
    /\ problem' = setFunction(problem, arg)
    /\ pc' = "set"
    /\ UNCHANGED <<arg, ret, functionInput, answerInput, currentStep, userAttempts,
                   revealedHints, checkBtnEnabled, answerSectionShown, progress,
                   lastResult, revealed, message, guideVars, progressThirds,
                   initVars, bootVars>>

NextProblem == DetermineTechniqueCall \/ SetFunctionCall

SpecProblem == InitProblem /\ [][NextProblem]_vars

----------------------------------------------------------------------------
(* AnswerValidator on its own: one call *)

\* pieces the answers given to normalizeAnswer are put together from
NormalizeFragments ==
    { <<"x">>,
      <<"+","c">>,
      <<"+","C">>,
      <<"+","c","o","n","s","t","a","n","t">>,
      <<"*">>,
      <<"^","1">>,
      <<"^">>,
      <<"1">>,
      <<" ">>,
      <<"c">>,
      <<"2">> }

NormalizeInputs ==
    {Concat(ss) : ss \in SeqsUpTo(NormalizeFragments, MaxAnswerFragments)}

InitNormalize ==
    /\ InitController
    /\ arg \in NormalizeInputs
    /\ ret = <<>>
    /\ pc = "call"

\* validator.normalizeAnswer(arg)
NormalizeAnswerCall ==
    /\ pc = "call"
    /\ ret' = normalizeAnswer(arg)
    /\ pc' = "normalized"
    /\ UNCHANGED <<arg, ctlVars, bootVars>>

NextNormalize == NormalizeAnswerCall

SpecNormalize == InitNormalize /\ [][NextNormalize]_vars

\* the antiderivatives that calculateCorrectAnswer holds
TableAnswers ==
    { <<"x","^","2","/","2">>,
      <<"x","^","3","/","3">>,
      <<"x","^","4","/","4">>,
      <<"x">>,
      <<"x","^","2">>,
      <<"x","^","3">>,
      <<"-","c","o","s","(","x",")">>,
      <<"s","i","n","(","x",")">>,
      <<"-","l","n","|","c","o","s","(","x",")","|">>,
      <<"e","^","x">>,
      <<"2","e","^","x">>,
      <<"l","n","|","x","|">> }

\* an answer as it is, with "+C" and with " + c" after it
WithConstant(a) == {a, a \o <<"+","C">>, a \o <<" ","+"," ","c">>}

\* pieces the user answers are put together from
UserFragments ==
    { <<"-">>,
      <<"x">>,
      <<"c">>,
      <<"+","c">>,
      <<" ">>,
      <<"2">>,
      <<"0",".","5","x","^","2">>,
      <<"x","^","2","/","2">>,
      <<"c","o","s","(","x",")">> }

\* pieces the short correct answers are put together from
CorrectFragments ==
    { <<"-">>,
      <<"x">>,
      <<"c">>,
      <<"2">>,
      <<"x","^","2","/","2">>,
      <<"c","o","s","(","x",")">> }

UserAnswers ==
    {Concat(ss) : ss \in SeqsUpTo(UserFragments, MaxUserFragments)}
        \cup UNION {WithConstant(a) : a \in TableAnswers}
        \cup {Sentinel, toLowerCase(Sentinel), StripWhitespace(Sentinel)}
        \cup {<<"0",".","5","*","x","^","2"," ","+"," ","C">>}

CorrectAnswers ==
    {Concat(ss) : ss \in SeqsUpTo(CorrectFragments, MaxCorrectFragments)}
        \cup UNION {WithConstant(a) : a \in TableAnswers}
        \cup {Sentinel}

\* attempt numbers passed in: the first, the last allowed and one beyond
AttemptNumbers == {1, maxAttempts, maxAttempts + 1}

InitValidate ==
    /\ InitController
    /\ arg \in [user : UserAnswers, correct : CorrectAnswers,
                attempts : AttemptNumbers]
    /\ ret = <<>>
    /\ pc = "call"

\* validator.validateAnswer(arg.user, arg.correct, arg.attempts)
ValidateAnswerCall ==
    /\ pc = "call"
    /\ ret' = validateAnswer(arg.user, arg.correct, arg.attempts)
    /\ pc' = "validated"
    /\ UNCHANGED <<arg, ctlVars, bootVars>>

NextValidate == ValidateAnswerCall

SpecValidate == InitValidate /\ [][NextValidate]_vars

----------------------------------------------------------------------------
(* AnswerValidator.validateAnswer on the answers that isEquivalentAnswer rewrites *)

\* pieces of user answers: the three patterns of isEquivalentAnswer and what
\* normalizeAnswer removes around them
EquivalentFragments ==
    { <<"x","^","2","/","2">>,
      <<"/","2","*","x","^","2">>,
      <<"0",".","5","x","^","2">>,
      <<"*">>,
      <<"1">>,
      <<" ","+"," ","C">> }

EquivalentUserAnswers ==
    {Concat(ss) : ss \in SeqsUpTo(EquivalentFragments, MaxEquivalentFragments)}

\* correct answers that a rewritten user answer could be equal to
EquivalentCorrectAnswers ==
    { XSquaredOver2,
      XSquaredOver2 \o <<"+","C">>,
      <<"0",".","5","x","^","2">>,
      <<"1">> \o XSquaredOver2,
      XSquaredOver2 \o XSquaredOver2 }

InitEquivalent ==
    /\ InitController
    /\ arg \in [user : EquivalentUserAnswers, correct : EquivalentCorrectAnswers,
                attempts : 1..(maxAttempts + 1)]
    /\ ret = <<>>
    /\ pc = "call"

NextEquivalent == ValidateAnswerCall

SpecEquivalent == InitEquivalent /\ [][NextEquivalent]_vars

----------------------------------------------------------------------------
(* Attempt handling of IntegrationController *)

\* C1: between one successful analysis and the next analysis or reset,
\* userAttempts never exceeds validator.maxAttempts (3), whatever the sequence
\* of clicks on the check button and Enter key presses in the answer field.
C1_AttemptsWithinMax == isValid(problem) => userAttempts <= maxAttempts

\* the empty string and the strings of one or two whitespace characters
BlankAnswers == SeqsUpTo(Whitespace, 2)

\* C2: validateAnswer answers every blank answer with the 'empty' verdict
\* (isValid and isCorrect false, feedback 'error', 'Please enter your answer
\* first!'); a handleValidateAnswer run on a blank answer leaves userAttempts
\* as it is, and a run on a non-blank answer adds exactly one to it.
C2_BlankConsumesNoAttempt ==
    [][handleValidateAnswer =>
        /\ \A a \in BlankAnswers :
               LET v == validateAnswer(a, problem.correctAnswer, userAttempts + 1)
               IN /\ v.type = "empty"
                  /\ ~v.isValid
                  /\ ~v.isCorrect
                  /\ v.feedback = "error"
                  /\ v.message = "Please enter your answer first!"
        /\ (answerInput \in BlankAnswers => userAttempts' = userAttempts)
        /\ (answerInput \notin BlankAnswers => userAttempts' = userAttempts + 1)]_vars

\* C2 happens: after one counted answer, a blank answer was submitted for the
\* analysed problem and refused, and the count is still one
C2_Witness ==
    /\ isValid(problem)
    /\ answerInput = <<" ">>
    /\ message = "Please enter your answer first!"
    /\ userAttempts = 1
    /\ lastResult.type # "none"

----------------------------------------------------------------------------
(* Technique detection *)

\* the input as determineTechnique tests it
Normalized(func) == StripWhitespace(toLowerCase(func))

\* C3: determineTechnique returns the result of the first pattern, in the
\* order polynomial, trigonometric, e^/ln (parts with '*', else substitution),
\* '/', fallback, that the lowercased, whitespace-stripped input matches;
\* "sin(x)*e^x" is trig and "e^x/x" is substitution.
C3_FirstMatchWins ==
    pc = "classified" =>
        LET f == Normalized(arg)
            poly == IsPolynomial(f)
            trig == IsTrigonometric(f)
            explog == IsExpOrLog(f)
            rational == IsRational(f)
        IN /\ poly => ret.technique = "power" /\ ret.difficulty = "Easy"
           /\ ~poly /\ trig => ret.technique = "trig" /\ ret.difficulty = "Medium"
           /\ ~poly /\ ~trig /\ explog /\ includes(f, <<"*">>) =>
                  ret.technique = "parts" /\ ret.difficulty = "Hard"
           /\ ~poly /\ ~trig /\ explog /\ ~includes(f, <<"*">>) =>
                  ret.technique = "substitution" /\ ret.difficulty = "Medium"
           /\ ~poly /\ ~trig /\ ~explog /\ rational =>
                  ret.technique = "partial" /\ ret.difficulty = "Hard"
           /\ ~poly /\ ~trig /\ ~explog /\ ~rational =>
                  ret.technique = "substitution" /\ ret.difficulty = "Medium"
           /\ arg = <<"s","i","n","(","x",")","*","e","^","x">> => ret.technique = "trig"
           /\ arg = <<"e","^","x","/","x">> => ret.technique = "substitution"

\* C3 happens: an input that matches the trigonometric pattern, the e^ pattern
\* and has a '*' was classified, and got the earliest of them
C3_Witness ==
    /\ pc = "classified"
    /\ arg = <<"s","i","n","(","x",")","*","e","^","x">>
    /\ IsTrigonometric(Normalized(arg))
    /\ IsExpOrLog(Normalized(arg))
    /\ ret.technique = "trig"

\* C4: determineTechnique applied to the empty string or to a whitespace-only
\* string returns the fallback, technique 'substitution', difficulty 'Medium'.
C4_BlankFallsBack ==
    pc = "classified" /\ IsBlank(arg) =>
        ret.technique = "substitution" /\ ret.difficulty = "Medium"

\* C5: for an input that does not match the polynomial pattern,
\* determineTechnique returns 'trig' (Medium) if and only if the normalized
\* input contains "sin(", "cos(" or "tan(".
C5_TrigIffOpeningParenthesis ==
    pc = "classified" /\ ~IsPolynomial(Normalized(arg)) =>
        ((ret.technique = "trig" /\ ret.difficulty = "Medium")
            <=> \/ includes(Normalized(arg), Sin \o <<"(">>)
                \/ includes(Normalized(arg), Cos \o <<"(">>)
                \/ includes(Normalized(arg), Tan \o <<"(">>))

\* the antiderivative that calculateCorrectAnswer lists for f, else the sentinel
ListedAnswer(f) ==
    CASE f = <<"x">> -> <<"x","^","2","/","2">>
      [] f = <<"x","^","2">> -> <<"x","^","3","/","3">>
      [] f = <<"x","^","3">> -> <<"x","^","4","/","4">>
      [] f = <<"1">> -> <<"x">>
      [] f = <<"2","x">> -> <<"x","^","2">>
      [] f = <<"3","x","^","2">> -> <<"x","^","3">>
      [] f = <<"s","i","n","(","x",")">> -> <<"-","c","o","s","(","x",")">>
      [] f = <<"c","o","s","(","x",")">> -> <<"s","i","n","(","x",")">>
      [] f = <<"t","a","n","(","x",")">> -> <<"-","l","n","|","c","o","s","(","x",")","|">>
      [] f = <<"e","^","x">> -> <<"e","^","x">>
      [] f = <<"2","e","^","x">> -> <<"2","e","^","x">>
      [] f = <<"1","/","x">> -> <<"l","n","|","x","|">>
      [] OTHER -> Sentinel

\* C6: after setFunction, correctAnswer is the listed antiderivative of the
\* function, whatever its letter case and whitespace (1/x gives 'ln|x|'),
\* and the sentinel for every function that is not listed.
C6_ListedAnswerStored ==
    pc = "set" => problem.correctAnswer = ListedAnswer(Normalized(arg))

----------------------------------------------------------------------------
(* Answer validation *)

\* 'answerdependsontechniqueused'
NormalizedSentinel ==
    <<"a","n","s","w","e","r","d","e","p","e","n","d","s","o","n",
      "t","e","c","h","n","i","q","u","e","u","s","e","d">>

\* C7 as stated: against the sentinel as correct answer, no user answer makes
\* validateAnswer return isCorrect=true.
C7_SentinelNeverCorrect ==
    pc = "validated" /\ arg.correct = Sentinel => ~ret.isCorrect

\* C7 amended: against the sentinel as correct answer, validateAnswer returns
\* isCorrect=true exactly for the user answers that normalize to
\* 'answerdependsontechniqueused', the sentinel's own text.
C7_SentinelCorrectOnlyForItself ==
    pc = "validated" /\ arg.correct = Sentinel =>
        (ret.isCorrect <=> normalizeAnswer(arg.user) = NormalizedSentinel)

\* C7 happens: an answer was validated against the sentinel and accepted
C7_Witness ==
    /\ pc = "validated"
    /\ arg.correct = Sentinel
    /\ arg.user = toLowerCase(Sentinel)
    /\ ret.isCorrect

\* C8: normalizeAnswer(normalizeAnswer(s)) = normalizeAnswer(s) for every s.
C8_NormalizeIdempotent == pc = "normalized" => normalizeAnswer(ret) = ret

\* C9: for every answer a of the answer table and every x, y among a, a+"+C"
\* and a+" + c", validateAnswer(x, y, n) is 'exact' and correct.
C9_TableAnswersExact ==
    pc = "validated"
    /\ (\E a \in TableAnswers :
            arg.user \in WithConstant(a) /\ arg.correct \in WithConstant(a))
    => ret.type = "exact" /\ ret.isCorrect

\* C9 happens: a table answer with "+C" was validated against the same answer
\* with " + c"
C9_Witness ==
    /\ pc = "validated"
    /\ arg.user = <<"x","^","2","/","2","+","C">>
    /\ arg.correct = <<"x","^","2","/","2"," ","+"," ","c">>
    /\ arg.attempts = 1
    /\ ret.type = "exact"

\* the normalized answers differ by a leading "-" on one side
SignCase(user, correct) ==
    /\ user # correct
    /\ \/ user = <<"-">> \o correct
       \/ user = StripLeadingMinus(correct)

\* the verdict of the sign-error rule
IsSignErrorVerdict(v) ==
    /\ v.type = "partial"
    /\ ~v.isCorrect
    /\ v.feedback = "warning"
    /\ v.message = SignErrorMessage

\* C10 as stated: whenever the normalized user answer differs from the
\* normalized correct answer and equals "-" + correct or correct without its
\* leading "-", validateAnswer returns 'partial' with the sign-error message.
C10_SignErrorIsPartial ==
    pc = "validated"
    /\ SignCase(normalizeAnswer(arg.user), normalizeAnswer(arg.correct))
    => IsSignErrorVerdict(ret)

\* C10 amended: the same for every user answer that is not blank.
C10_SignErrorIsPartialUnlessBlank ==
    pc = "validated"
    /\ ~IsBlank(arg.user)
    /\ SignCase(normalizeAnswer(arg.user), normalizeAnswer(arg.correct))
    => IsSignErrorVerdict(ret)

\* C10 happens: "cos(x)" was validated against "-cos(x)"
C10_Witness ==
    /\ pc = "validated"
    /\ arg.user = <<"c","o","s","(","x",")">>
    /\ arg.correct = <<"-","c","o","s","(","x",")">>
    /\ IsSignErrorVerdict(ret)

\* the three rules of checkPartialCredit on normalized answers
MissingConstantRule(user, correct) ==
    user \o <<"c">> = correct \/ user = correct \o <<"c">>

SignErrorRule(user, correct) ==
    user = StripLeadingMinus(correct) \/ user = <<"-">> \o correct

CoefficientRule(user, correct) ==
    ReplaceFirstNumber(user) = ReplaceFirstNumber(correct)

\* C11: for an answer that reaches checkPartialCredit (not blank, neither
\* exact nor equivalent), the rules are tested in the order missing constant,
\* sign error, coefficient error, and the verdict is 'partial' with the message
\* of the first rule that matches; it is 'incorrect' exactly when none of the
\* three rules matches.
C11_FirstPartialRuleWins ==
    LET nu == normalizeAnswer(arg.user)
        nc == normalizeAnswer(arg.correct)
        missing == MissingConstantRule(nu, nc)
        sign == SignErrorRule(nu, nc)
        coefficient == CoefficientRule(nu, nc)
    IN pc = "validated" /\ ~IsBlank(arg.user) /\ nu # nc /\ ~isEquivalentAnswer(nu, nc)
       => /\ ret.type \in {"partial", "incorrect"}
          /\ missing => ret.type = "partial" /\ ret.message = MissingConstantMessage
          /\ ~missing /\ sign =>
                 ret.type = "partial" /\ ret.message = SignErrorMessage
          /\ ~missing /\ ~sign /\ coefficient =>
                 ret.type = "partial" /\ ret.message = CoefficientMessage
          /\ ret.type = "incorrect" <=> ~missing /\ ~sign /\ ~coefficient

\* C11 happens: "x^2" was validated against "x^3", which only the coefficient
\* rule matches
C11_Witness ==
    /\ pc = "validated"
    /\ arg.user = <<"x","^","2">>
    /\ arg.correct = <<"x","^","3">>
    /\ ~MissingConstantRule(normalizeAnswer(arg.user), normalizeAnswer(arg.correct))
    /\ ~SignErrorRule(normalizeAnswer(arg.user), normalizeAnswer(arg.correct))
    /\ ret.type = "partial"
    /\ ret.message = CoefficientMessage

\* the (pattern, replacement) pairs of isEquivalentAnswer
EquivalentRewrites ==
    { <<XSquaredOver2, XSquaredOver2>>,
      <<(<<"/", "2", "*", "x", "^", "2">>), XSquaredOver2>>,
      <<(<<"0", ".", "5", "x", "^", "2">>), XSquaredOver2>> }

\* C12: when the normalized user answer is not the normalized correct answer
\* itself and one of the fixed rewrites turns it into the normalized correct
\* answer, validateAnswer returns 'equivalent', isCorrect=true, feedback
\* 'success'; validateAnswer("0.5x^2", "x^2/2", n) and
\* validateAnswer("0.5*x^2 + C", "x^2/2", n) are 'equivalent'.
C12_RewriteIsEquivalent ==
    LET nu == normalizeAnswer(arg.user)
        nc == normalizeAnswer(arg.correct)
    IN pc = "validated" =>
        /\ (/\ ~IsBlank(arg.user)
            /\ nu # nc
            /\ \E rw \in EquivalentRewrites : ReplaceFirst(nu, rw[1], rw[2]) = nc)
           => ret.type = "equivalent" /\ ret.isCorrect /\ ret.feedback = "success"
        /\ (/\ arg.user \in { <<"0",".","5","x","^","2">>,
                               <<"0",".","5","*","x","^","2"," ","+"," ","C">> }
            /\ arg.correct = XSquaredOver2)
           => ret.type = "equivalent" /\ ret.isCorrect /\ ret.feedback = "success"

\* C12 happens: "0.5*x^2 + C" was validated against "x^2/2" and accepted as
\* equivalent
C12_Witness ==
    /\ pc = "validated"
    /\ arg.user = <<"0",".","5","*","x","^","2"," ","+"," ","C">>
    /\ arg.correct = XSquaredOver2
    /\ normalizeAnswer(arg.user) # normalizeAnswer(arg.correct)
    /\ ret.type = "equivalent"

\* C13: every verdict of validateAnswer for a non-blank answer carries
\* attempts equal to the attempt number passed in, maxAttempts = 3 and
\* hasMoreAttempts = (attempts < 3), so hasMoreAttempts is false from the
\* third attempt on, whatever the verdict type.
C13_AttemptFields ==
    pc = "validated" /\ ~IsBlank(arg.user) =>
        /\ ret.attempts = arg.attempts
        /\ ret.maxAttempts = 3
        /\ ret.hasMoreAttempts = (arg.attempts < 3)
        /\ arg.attempts >= 3 => ~ret.hasMoreAttempts

\* C13 happens: a correct answer was validated as third attempt, and no
\* attempt is left
C13_Witness ==
    /\ pc = "validated"
    /\ ~IsBlank(arg.user)
    /\ arg.attempts = 3
    /\ ret.type = "exact"
    /\ ret.attempts = 3
    /\ ~ret.hasMoreAttempts

\* C14: for every pair (user answer, correct answer) validateAnswer returns a
\* verdict of exactly one type among empty, exact, equivalent, partial and
\* incorrect; isCorrect is true iff the type is exact or equivalent, feedback
\* is 'success' iff isCorrect, 'warning' iff the type is partial, 'error' iff
\* the type is empty or incorrect, and isValid is false iff the type is empty.
C14_VerdictShape ==
    pc = "validated" =>
        /\ {"isValid", "isCorrect", "type", "message", "feedback"} \subseteq DOMAIN ret
        /\ ret.type \in {"empty", "exact", "equivalent", "partial", "incorrect"}
        /\ ret.isCorrect \in BOOLEAN
        /\ ret.isValid \in BOOLEAN
        /\ ret.isCorrect <=> ret.type \in {"exact", "equivalent"}
        /\ ret.feedback = "success" <=> ret.isCorrect
        /\ ret.feedback = "warning" <=> ret.type = "partial"
        /\ ret.feedback = "error" <=> ret.type \in {"empty", "incorrect"}
        /\ ~ret.isValid <=> ret.type = "empty"

\* C14 happens: an answer was validated with partial credit, which is valid,
\* not correct, and a warning
C14_Witness ==
    /\ pc = "validated"
    /\ ret.type = "partial"
    /\ ret.isValid
    /\ ~ret.isCorrect
    /\ ret.feedback = "warning"

\* C15: for every input string determineTechnique returns a technique among
\* power, substitution, parts, trig and partial, together with the difficulty
\* that AppConfig.techniques fixes for that technique (power Easy,
\* substitution Medium, trig Medium, parts Hard, partial Hard).
C15_DifficultyOfTechnique ==
    pc = "classified" =>
        /\ ret.technique \in DOMAIN AppConfigTechniques
        /\ ret.difficulty = AppConfigTechniques[ret.technique].difficulty

\* C15 happens: a product with e^x was classified as integration by parts,
\* which the table rates 'Hard'
C15_Witness ==
    /\ pc = "classified"
    /\ arg = <<"x","*","e","^","x">>
    /\ ret.technique = "parts"
    /\ ret.difficulty = "Hard"

\* C17: every Quick Start example of the README is classified by
\* determineTechnique with the technique and the difficulty that the README
\* table lists for it: "x^2" Power Rule / Easy, "sin(x)" Trigonometric /
\* Medium, "x*e^x" Integration by Parts / Hard, "2x/(x^2 + 1)" U-Substitution
\* / Medium.
C17_QuickStartClassified ==
    pc = "classified" =>
        \A ex \in QuickStartExamples :
            arg = ex.func =>
                ret.technique = ex.technique /\ ret.difficulty = ex.difficulty

----------------------------------------------------------------------------
(* Hints and steps *)

\* the revealed-hint count is within the hints of the current technique
HintCountInRange ==
    /\ revealedHints \in 0..Len(Hints(problem.technique))
    /\ revealedHints <= Len(currentHints)

\* C18: under any sequence of analyze, hint, technique-change and reset
\* events the number of revealed hints stays between 0 and the number of hints
\* of the current technique; after an analysis the k-th hint request reveals
\* the k-th hint of the technique's sequence, and a request made when all
\* hints are revealed reveals nothing, leaves the count unchanged and reports
\* 'No more hints available!'.
C18_HintsInOrder ==
    /\ HintCountInRange
    /\ [][/\ HintCountInRange'
          /\ handleShowHint /\ isValid(problem) =>
                LET hints == Hints(problem.technique)
                IN IF revealedHints < Len(hints)
                   THEN /\ revealedHints' = revealedHints + 1
                        /\ Len(hintItems') = Len(hints)
                        /\ \A i \in 1..Len(hints) :
                               /\ hintItems'[i].hint = hints[i]
                               /\ hintItems'[i].display = (i <= revealedHints')
                   ELSE /\ revealedHints' = revealedHints
                        /\ hintItems' = hintItems
                        /\ message' = "No more hints available!"]_vars

\* C18 happens: all three hints of an analysed function were revealed in
\* order, and one more request was refused
C18_Witness ==
    /\ isValid(problem)
    /\ revealedHints = 3
    /\ revealedHints = Len(Hints(problem.technique))
    /\ \A i \in 1..3 : hintItems[i].display
    /\ message = "No more hints available!"

\* currentStep is within the steps of the problem
StepInRange == currentStep \in 0..Len(problem.steps)

\* C19: under any sequence of analyze, next-step, technique-change and reset
\* events 0 <= currentStep <= problem.steps.length holds in every reachable
\* state; each accepted next-step request shows steps[currentStep] and adds
\* one to currentStep, and a request made for an analysed problem when all
\* steps are shown changes nothing.
C19_StepsInOrder ==
    /\ StepInRange
    /\ [][/\ StepInRange'
          /\ handleNextStep /\ isValid(problem) =>
                IF currentStep < Len(problem.steps)
                THEN /\ stepsShown' =
                            Append(stepsShown,
                                   [step |-> problem.steps[currentStep + 1],
                                    number |-> currentStep + 1])
                     /\ currentStep' = currentStep + 1
                ELSE UNCHANGED vars]_vars

\* C19 happens: the five steps of an analysed product were shown one by one
C19_Witness ==
    /\ isValid(problem)
    /\ Len(problem.steps) = 5
    /\ currentStep = 5
    /\ Len(stepsShown) = 5
    /\ \A i \in 1..5 : stepsShown[i].step = problem.steps[i] /\ stepsShown[i].number = i

----------------------------------------------------------------------------
(* A problem from its analysis to its third attempt *)

\* C16: when the third non-blank answer submitted for a problem is not
\* correct, the correct answer is revealed and the check button is disabled;
\* an incorrect first or second attempt never reveals the correct answer, and
\* a correct answer on any attempt takes the success branch instead of the
\* reveal.
C16_RevealOnThirdFailure ==
    [][handleValidateAnswer /\ isValid(problem) /\ ~IsBlank(answerInput) =>
        LET n == userAttempts + 1
            correct == validateAnswer(answerInput, problem.correctAnswer, n).isCorrect
        IN /\ userAttempts' = n
           /\ correct =>
                  /\ ~revealed'
                  /\ lastResult'.isCorrect
                  /\ progress' = 100
                  /\ message' = "Excellent work! You solved it correctly!"
           /\ ~correct /\ n = 3 => revealed' /\ ~checkBtnEnabled'
           /\ ~correct /\ n < 3 => ~revealed']_vars

\* C16 happens: the third answer for a problem was not correct, the correct
\* answer is displayed and the check button is disabled
C16_Witness ==
    /\ isValid(problem)
    /\ userAttempts = 3
    /\ lastResult.type \in {"partial", "incorrect"}
    /\ lastResult.attempts = 3
    /\ revealed
    /\ ~checkBtnEnabled

\* C20: a handleAnalyzeFunction call with a non-blank function sets
\* userAttempts, currentStep and the revealed-hint count to 0 whatever the
\* previous state, so the analysed problem starts with all three attempts,
\* all hints hidden and no step shown.
C20_AnalysisStartsAfresh ==
    [][handleAnalyzeFunction /\ ~IsBlank(functionInput) =>
        /\ userAttempts' = 0
        /\ currentStep' = 0
        /\ revealedHints' = 0
        /\ maxAttempts - userAttempts' = 3
        /\ \A i \in DOMAIN hintItems' : ~hintItems'[i].display
        /\ stepsShown' = <<>>
        /\ isValid(problem')]_vars

\* C20 happens: a function was analysed while the verdict of a failed third
\* attempt and the revealed answer of the problem before it are still displayed
C20_Witness ==
    /\ isValid(problem)
    /\ lastResult.type \in {"partial", "incorrect"}
    /\ lastResult.attempts = 3
    /\ revealed
    /\ userAttempts = 0
    /\ currentStep = 0
    /\ revealedHints = 0
    /\ checkBtnEnabled

----------------------------------------------------------------------------
(* Requests without an analysed function *)

\* C21: while no function is analysed (problem.isValid() is false), hint,
\* next-step and check-answer events are rejected with 'Please analyze a
\* function first!' and change neither currentStep, userAttempts nor the
\* revealed-hint count.
C21_UnanalysedRejected ==
    [][/\ ~isValid(problem)
       /\ (handleShowHint \/ handleNextStep \/ handleValidateAnswer)
       => /\ message' = "Please analyze a function first!"
          /\ UNCHANGED <<currentStep, userAttempts, revealedHints>>
          /\ UNCHANGED <<hintItems, stepsShown, lastResult>>]_vars

\* C21 happens: a request was rejected while no function was analysed, though
\* a technique change had prepared three hints and enabled the hint button
C21_Witness ==
    /\ ~isValid(problem)
    /\ hintBtnEnabled
    /\ Len(currentHints) = 3
    /\ revealedHints = 0
    /\ currentStep = 0
    /\ userAttempts = 0
    /\ message = "Please analyze a function first!"

----------------------------------------------------------------------------
(* Initialization of the controller *)

\* C22: IntegrationController.initialize sets isInitialized to true only when
\* all six dependencies are present; if any one is missing it throws 'Missing
\* required dependencies', registers no event listener and leaves
\* isInitialized as it is, false on a controller never initialized.
C22_InitializeNeedsAllSix ==
    [][\A dependencies \in SUBSET Dependencies :
          initialize(dependencies) =>
              /\ isInitialized' # isInitialized =>
                     isInitialized' /\ dependencies = Dependencies
              /\ dependencies # Dependencies =>
                     /\ pc' = "thrown"
                     /\ ret' = "Missing required dependencies"
                     /\ listenerSets' = listenerSets
                     /\ isInitialized' = isInitialized
                     /\ listenerSets = 0 => ~isInitialized']_vars

\* C22 happens: initialize was called without the hints view on a controller
\* never initialized, and threw
C22_Witness ==
    /\ pc = "thrown"
    /\ arg = Dependencies \ {"hintsView"}
    /\ ret = "Missing required dependencies"
    /\ ~isInitialized
    /\ listenerSets = 0

\* a module whose loadModule has been called
Started(m) == moduleStatus[m] # "idle"

\* C23: a module has started loading only if every module of every earlier
\* group has finished loading, and once a module has failed to load no module
\* of a later group has been started and the error banner is shown
C23_GroupsLoadInOrder ==
    /\ \A m \in Modules : Started(m) =>
           \A g \in 1..(GroupOf(m) - 1) : GroupLoaded(moduleStatus, g)
    /\ \A m \in Modules : moduleStatus[m] = "failed" =>
           /\ errorBanner
           /\ \A n \in Modules : GroupOf(n) > GroupOf(m) => ~Started(n)

\* C23 witness: a view failed while another view had been started with it and
\* went on to finish; models all loaded; controller never requested; banner
C23_Witness ==
    /\ moduleStatus["HintsView"] = "failed"
    /\ moduleStatus["AnswerView"] = "loaded"
    /\ GroupLoaded(moduleStatus, 2)
    /\ moduleStatus["IntegrationController"] = "idle"
    /\ errorBanner

\* initialize has returned with isInitialized set, or has thrown after showing
\* its error message
InitializeEnded ==
    \/ appPc = "initialized" /\ appInitialized
    \/ appPc = "failed" /\ errorMessage # ""

\* C27: IntegrationAssistant.initialize always ends, completed or failed with
\* a message shown, whichever scripts become available
C27_InitializeTerminates == <>InitializeEnded

\* every ')' of s closes an earlier unmatched '(' and every '(' is closed
BalancedParentheses(s) ==
    /\ CountChar(s, "(") = CountChar(s, ")")
    /\ \A k \in 1..Len(s) :
           CountChar(SubSeq(s, 1, k), "(") >= CountChar(SubSeq(s, 1, k), ")")

\* C24: validateInput answers isValid only for a non-blank input with balanced
\* parentheses and allowed characters, and answers 'Unbalanced parentheses',
\* not valid, for every input whose parentheses are not balanced
C24_ValidOnlyWhenBalanced ==
    pc = "validated" =>
        /\ ret.isValid =>
               /\ ~IsBlank(arg)
               /\ BalancedParentheses(arg)
               /\ AllValidChars(arg)
        /\ ~BalancedParentheses(arg) =>
               /\ ~ret.isValid
               /\ ret.message = "Unbalanced parentheses"

\* C25: a change to a technique other than the current one gives the problem
\* the hints and steps of the new technique and resets currentStep and the
\* revealed-hint count, leaving functionString, correctAnswer, difficulty,
\* description and userAttempts as they were; a change to the current
\* technique or to the empty value changes nothing
C25_TechniqueChangeRegenerates ==
    [][\A t \in SessionTechniqueInputs : handleTechniqueChange(t) =>
        IF t # "" /\ t # problem.technique
        THEN /\ problem'.technique = t
             /\ problem'.hints = Hints(t)
             /\ problem'.steps = Steps(t, problem.functionString, problem.correctAnswer)
             /\ currentStep' = 0
             /\ revealedHints' = 0
             /\ problem'.functionString = problem.functionString
             /\ problem'.correctAnswer = problem.correctAnswer
             /\ problem'.difficulty = problem.difficulty
             /\ problem'.description = problem.description
             /\ userAttempts' = userAttempts
        ELSE UNCHANGED vars]_vars

\* C25 witness: the problem analysed from "x", detected as power rule, after
\* a change to integration by parts made once an answer had been counted
C25_Witness ==
    /\ problem.functionString = <<"x">>
    /\ problem.technique = "parts"
    /\ problem.hints = Hints("parts")
    /\ problem.difficulty = AppConfigTechniques["power"].difficulty
    /\ problem.correctAnswer = ListedAnswer(<<"x">>)
    /\ problem.steps = Steps("parts", <<"x">>, ListedAnswer(<<"x">>))
    /\ userAttempts >= 1
    /\ currentStep = 0
    /\ revealedHints = 0

\* the progress percentage in thirds of a percent
ProgressInThirds(whole, thirds) == 3 * whole + thirds

\* C26: no hint, next-step or check-answer event lowers the progress
\* percentage
C26_ProgressNeverDecreases ==
    [][(handleShowHint \/ handleNextStep \/ ClickCheckAnswer \/ PressEnterInAnswer) =>
        ProgressInThirds(progress', progressThirds')
            >= ProgressInThirds(progress, progressThirds)]_vars

\* the rewrites of isEquivalentAnswer other than the one of "0.5x^2": the
\* identity pair, x^2/2 onto itself, and "/2*x^2"
IdleRewriteMatches(user, correct) ==
    \/ user = correct
    \/ ReplaceFirst(user, XSquaredOver2, XSquaredOver2) = correct
    \/ ReplaceFirst(user, <<"/", "2", "*", "x", "^", "2">>, XSquaredOver2) = correct

\* C28: validateAnswer answers 'equivalent' only when the normalized user
\* answer contains "0.5x^2"; the other three pairs of isEquivalentAnswer match
\* only where the normalized answers are already equal
C28_EquivalentOnlyByDecimalHalf ==
    LET nu == normalizeAnswer(arg.user)
        nc == normalizeAnswer(arg.correct)
    IN pc = "validated" =>
        /\ ret.type = "equivalent" => includes(nu, <<"0", ".", "5", "x", "^", "2">>)
        /\ IdleRewriteMatches(nu, nc) => nu = nc
        /\ ~includes(nu, <<"*">>)

\* C28 witness: "0.5x^2" validated against "x^2/2 + C" and found equivalent
C28_Witness ==
    /\ pc = "validated"
    /\ arg.user = <<"0", ".", "5", "x", "^", "2">>
    /\ arg.correct = XSquaredOver2 \o <<"+", "C">>
    /\ ret.type = "equivalent"

====
